---------------------------- MODULE Spec2Model ----------------------------
(***************************************************************************)
(* Model of src/src/config.rs (TiKV configuration tree): the memory sizing *)
(* advisor memory_mb_for_cf, the compiled-in defaults, deserialization of  *)
(* a document onto the defaults, and the validation pass                   *)
(* TiKvConfig::validate with the sub-validators it delegates to.           *)
(*                                                                         *)
(* Units.  TLC integers are 32 bit, and the code's byte counts (2GB and    *)
(* above) do not fit.  Every size of the model is therefore a count of     *)
(* KiB, the unit in which sys_info reports the host memory.  Every         *)
(* threshold of the code is a whole number of KiB, so comparisons and the  *)
(* final division by MB give the same megabyte values as the byte          *)
(* arithmetic of the code.                                                 *)
(*                                                                         *)
(* Paths.  A path is a sequence of components; an absolute path starts     *)
(* with the component "/"; the empty sequence is the empty string.         *)
(***************************************************************************)
EXTENDS Integers, Sequences, FiniteSets, TLC

-----------------------------------------------------------------------------
(* util::config unit constants, in KiB *)
KB == 1
MB == 1024
GB == 1024 * MB

ReadableSize_kb(n) == n * KB
ReadableSize_mb(n) == n * MB
ReadableSize_gb(n) == n * GB

(* usize::MAX: larger than every size the model can hold *)
USIZE_MAX == 2147483647

CF_DEFAULT == "default"
CF_LOCK == "lock"
CF_WRITE == "write"
CF_RAFT == "raft"

LOCKCF_MIN_MEM == 256 * MB
LOCKCF_MAX_MEM == GB
RAFT_MIN_MEM == 256 * MB
RAFT_MAX_MEM == 2 * GB

-----------------------------------------------------------------------------
(* Memory sizing advisor.  The definitions named Name_Variation, here and  *)
(* below, are faulty variants of Name: each property of the model is       *)
(* checked to fail when the variant takes the place of the original.       *)

(* memory_mb_for_cf's table with the lock CF's bounds copied into the      *)
(* consensus-log row                                                       *)
AdvisorRow_RaftLockBounds(is_raft_db, cf) ==
    CASE is_raft_db /\ cf = CF_DEFAULT ->
            [num |-> 2, den |-> 100, min |-> LOCKCF_MIN_MEM, max |-> LOCKCF_MAX_MEM, ok |-> TRUE]
      [] ~is_raft_db /\ cf = CF_DEFAULT ->
            [num |-> 1, den |-> 4, min |-> 0, max |-> USIZE_MAX, ok |-> TRUE]
      [] ~is_raft_db /\ cf = CF_LOCK ->
            [num |-> 2, den |-> 100, min |-> LOCKCF_MIN_MEM, max |-> LOCKCF_MAX_MEM, ok |-> TRUE]
      [] ~is_raft_db /\ cf = CF_WRITE ->
            [num |-> 15, den |-> 100, min |-> 0, max |-> USIZE_MAX, ok |-> TRUE]
      [] OTHER ->
            [num |-> 0, den |-> 1, min |-> 0, max |-> 0, ok |-> FALSE]

(* memory_mb_for_cf's table with the consensus-log bounds copied into the  *)
(* lock CF's row                                                           *)
AdvisorRow_LockRaftBounds(is_raft_db, cf) ==
    CASE is_raft_db /\ cf = CF_DEFAULT ->
            [num |-> 2, den |-> 100, min |-> RAFT_MIN_MEM, max |-> RAFT_MAX_MEM, ok |-> TRUE]
      [] ~is_raft_db /\ cf = CF_DEFAULT ->
            [num |-> 1, den |-> 4, min |-> 0, max |-> USIZE_MAX, ok |-> TRUE]
      [] ~is_raft_db /\ cf = CF_LOCK ->
            [num |-> 2, den |-> 100, min |-> RAFT_MIN_MEM, max |-> RAFT_MAX_MEM, ok |-> TRUE]
      [] ~is_raft_db /\ cf = CF_WRITE ->
            [num |-> 15, den |-> 100, min |-> 0, max |-> USIZE_MAX, ok |-> TRUE]
      [] OTHER ->
            [num |-> 0, den |-> 1, min |-> 0, max |-> 0, ok |-> FALSE]

AdvisorRow_MainRaftAsLock(is_raft_db, cf) ==
    CASE is_raft_db /\ cf = CF_DEFAULT ->
            [num |-> 2, den |-> 100, min |-> RAFT_MIN_MEM, max |-> RAFT_MAX_MEM, ok |-> TRUE]
      [] ~is_raft_db /\ cf = CF_DEFAULT ->
            [num |-> 1, den |-> 4, min |-> 0, max |-> USIZE_MAX, ok |-> TRUE]
      [] ~is_raft_db /\ cf \in {CF_LOCK, CF_RAFT} ->
            [num |-> 2, den |-> 100, min |-> LOCKCF_MIN_MEM, max |-> LOCKCF_MAX_MEM, ok |-> TRUE]
      [] ~is_raft_db /\ cf = CF_WRITE ->
            [num |-> 15, den |-> 100, min |-> 0, max |-> USIZE_MAX, ok |-> TRUE]
      [] OTHER ->
            [num |-> 0, den |-> 1, min |-> 0, max |-> 0, ok |-> FALSE]

AdvisorRow_WriteThirty(is_raft_db, cf) ==
    CASE is_raft_db /\ cf = CF_DEFAULT ->
            [num |-> 2, den |-> 100, min |-> RAFT_MIN_MEM, max |-> RAFT_MAX_MEM, ok |-> TRUE]
      [] ~is_raft_db /\ cf = CF_DEFAULT ->
            [num |-> 1, den |-> 4, min |-> 0, max |-> USIZE_MAX, ok |-> TRUE]
      [] ~is_raft_db /\ cf = CF_LOCK ->
            [num |-> 2, den |-> 100, min |-> LOCKCF_MIN_MEM, max |-> LOCKCF_MAX_MEM, ok |-> TRUE]
      [] ~is_raft_db /\ cf = CF_WRITE ->
            [num |-> 30, den |-> 100, min |-> 0, max |-> USIZE_MAX, ok |-> TRUE]
      [] OTHER ->
            [num |-> 0, den |-> 1, min |-> 0, max |-> 0, ok |-> FALSE]

(* the (ratio, min, max) row of the match in memory_mb_for_cf; the ratio is *)
(* a fraction num/den; a pair outside the four rows reaches unreachable!() *)
AdvisorRow(is_raft_db, cf) ==
    CASE is_raft_db /\ cf = CF_DEFAULT ->
            [num |-> 2, den |-> 100, min |-> RAFT_MIN_MEM, max |-> RAFT_MAX_MEM, ok |-> TRUE]
      [] ~is_raft_db /\ cf = CF_DEFAULT ->
            [num |-> 1, den |-> 4, min |-> 0, max |-> USIZE_MAX, ok |-> TRUE]
      [] ~is_raft_db /\ cf = CF_LOCK ->
            [num |-> 2, den |-> 100, min |-> LOCKCF_MIN_MEM, max |-> LOCKCF_MAX_MEM, ok |-> TRUE]
      [] ~is_raft_db /\ cf = CF_WRITE ->
            [num |-> 15, den |-> 100, min |-> 0, max |-> USIZE_MAX, ok |-> TRUE]
      [] OTHER ->
            [num |-> 0, den |-> 1, min |-> 0, max |-> 0, ok |-> FALSE]

(* (total_mem as f64 * radio) as usize: the product truncated toward zero. *)
(* The f64 product of an integer below 2^53 with 0.02, 0.25 or 0.15 rounds *)
(* to the exact product whenever that is an integer and is otherwise off   *)
(* by far less than 1/100, so its truncation is the integer quotient.      *)
(* The quotient is split to keep the intermediate product within 32 bits.  *)
ScaleTrunc(total_mem, num, den) ==
    (total_mem \div den) * num + ((total_mem % den) * num) \div den

(* memory_mb_for_cf, given the total the host-memory query returned (KiB). *)
(* "unreachable" stands for the abort of the unreachable!() arm.           *)
memory_mb_for_cf(total_kb, is_raft_db, cf) ==
    LET total_mem == total_kb * KB
        row == AdvisorRow(is_raft_db, cf)
        size0 == ScaleTrunc(total_mem, row.num, row.den)
        size == IF size0 < row.min THEN row.min
                ELSE IF size0 > row.max THEN row.max
                ELSE size0
    IN  IF row.ok THEN size \div MB ELSE -1

-----------------------------------------------------------------------------
(* Bounds of the model *)

(* number of validate calls on one tree *)
MaxValidations == 2

-----------------------------------------------------------------------------
(* Host: total memory and file system *)

(* host memory sizes in KiB: 1GiB, just below / at / just above the 256MB  *)
(* floor of the 2% rows (12800MB), 16GiB, just below / at / just above the *)
(* 1GB ceiling of the lock CF (51200MB) and the 2GB ceiling of the         *)
(* consensus-log CF (102400MB), 128GiB                                     *)
HostMemKb ==
    { 1048576, 13107199, 13107200, 13158400, 16777216,
      52428799, 52428800, 52480000, 104857599, 104857600, 104908800, 134217728 }

EmptyPath == << >>
Cwd == <<"/">>
(* "/lnk" is a symbolic link to "/data/db" *)
LinkSrc == <<"/", "lnk">>
LinkDst == <<"/", "data", "db">>

IsPrefix(p, q) == Len(p) <= Len(q) /\ SubSeq(q, 1, Len(p)) = p

(* Path::new(path).join(sub).display(): sub is a relative component, and an *)
(* empty sub leaves the path as it is *)
PathJoin(path, sub) == IF sub = "" THEN path ELSE path \o <<sub>>

(* the absolute, link-free form of a path *)
Resolve(p) ==
    LET abs == IF p # << >> /\ Head(p) = "/" THEN p ELSE Cwd \o p
    IN  IF IsPrefix(LinkSrc, abs)
        THEN LinkDst \o SubSeq(abs, Len(LinkSrc) + 1, Len(abs))
        ELSE abs

NoPath == <<"?">>

(* config::canonicalize_sub_path(path, sub): joins, creates the directory  *)
(* when missing and returns its canonical form; fails (NoPath) when the    *)
(* joined path is a file or cannot be created: those are the paths of      *)
(* unusable.                                                               *)
canonicalize_sub_path(unusable, path, sub) ==
    LET r == Resolve(PathJoin(path, sub))
    IN  IF \E u \in unusable : IsPrefix(u, r) THEN NoPath ELSE r

(* config::canonicalize_path(path) *)
canonicalize_path(unusable, path) == canonicalize_sub_path(unusable, path, "")

(* util::rocksdb::db_exist(path): the directory holds engine data *)
db_exist(dbs, path) == path \in dbs

(* config::check_addr(addr): an address is host:port; it is modelled by    *)
(* its parts between the colons, and is well formed when it has exactly    *)
(* two parts of which the second is a port number.                         *)
Ports == {"443", "2379"}
check_addr(addr) == Len(addr) = 2 /\ addr[2] \in Ports

-----------------------------------------------------------------------------
(* Compiled-in defaults.  A constructor yields v, the value, q, the number *)
(* of host-memory queries it issued (memory_mb_for_cf reads                *)
(* sys_info::mem_info() on every call), and a, the (is_raft_db, cf) pairs  *)
(* it called memory_mb_for_cf with.                                        *)

CompressionTiered == <<"no", "no", "lz4", "lz4", "lz4", "zstd", "zstd">>
CompressionNone == <<"no", "no", "no", "no", "no", "no", "no">>

DefaultCfConfig_default(total_kb) ==
    [v |-> [block_size |-> ReadableSize_kb(64),
            block_cache_size |-> ReadableSize_mb(memory_mb_for_cf(total_kb, FALSE, CF_DEFAULT)),
            cache_index_and_filter_blocks |-> TRUE,
            use_bloom_filter |-> TRUE,
            whole_key_filtering |-> TRUE,
            bloom_filter_bits_per_key |-> 10,
            block_based_bloom_filter |-> FALSE,
            compression_per_level |-> CompressionTiered,
            write_buffer_size |-> ReadableSize_mb(128),
            max_write_buffer_number |-> 5,
            min_write_buffer_number_to_merge |-> 1,
            max_bytes_for_level_base |-> ReadableSize_mb(512),
            target_file_size_base |-> ReadableSize_mb(32),
            level0_file_num_compaction_trigger |-> 4,
            level0_slowdown_writes_trigger |-> 20,
            level0_stop_writes_trigger |-> 36,
            max_compaction_bytes |-> ReadableSize_gb(2),
            compaction_pri |-> "MinOverlappingRatio"],
     q |-> 1, a |-> {<<FALSE, CF_DEFAULT>>}]

WriteCfConfig_default(total_kb) ==
    [v |-> [block_size |-> ReadableSize_kb(64),
            block_cache_size |-> ReadableSize_mb(memory_mb_for_cf(total_kb, FALSE, CF_WRITE)),
            cache_index_and_filter_blocks |-> TRUE,
            use_bloom_filter |-> TRUE,
            whole_key_filtering |-> FALSE,
            bloom_filter_bits_per_key |-> 10,
            block_based_bloom_filter |-> FALSE,
            compression_per_level |-> CompressionTiered,
            write_buffer_size |-> ReadableSize_mb(128),
            max_write_buffer_number |-> 5,
            min_write_buffer_number_to_merge |-> 1,
            max_bytes_for_level_base |-> ReadableSize_mb(512),
            target_file_size_base |-> ReadableSize_mb(32),
            level0_file_num_compaction_trigger |-> 4,
            level0_slowdown_writes_trigger |-> 20,
            level0_stop_writes_trigger |-> 36,
            max_compaction_bytes |-> ReadableSize_gb(2),
            compaction_pri |-> "MinOverlappingRatio"],
     q |-> 1, a |-> {<<FALSE, CF_WRITE>>}]

LockCfConfig_default(total_kb) ==
    [v |-> [block_size |-> ReadableSize_kb(16),
            block_cache_size |-> ReadableSize_mb(memory_mb_for_cf(total_kb, FALSE, CF_LOCK)),
            cache_index_and_filter_blocks |-> TRUE,
            use_bloom_filter |-> TRUE,
            whole_key_filtering |-> TRUE,
            bloom_filter_bits_per_key |-> 10,
            block_based_bloom_filter |-> FALSE,
            compression_per_level |-> CompressionNone,
            write_buffer_size |-> ReadableSize_mb(128),
            max_write_buffer_number |-> 5,
            min_write_buffer_number_to_merge |-> 1,
            max_bytes_for_level_base |-> ReadableSize_mb(128),
            target_file_size_base |-> ReadableSize_mb(32),
            level0_file_num_compaction_trigger |-> 1,
            level0_slowdown_writes_trigger |-> 20,
            level0_stop_writes_trigger |-> 36,
            max_compaction_bytes |-> ReadableSize_gb(2),
            compaction_pri |-> "ByCompensatedSize"],
     q |-> 1, a |-> {<<FALSE, CF_LOCK>>}]

RaftCfConfig_default ==
    [v |-> [block_size |-> ReadableSize_kb(16),
            block_cache_size |-> ReadableSize_mb(128),
            cache_index_and_filter_blocks |-> TRUE,
            use_bloom_filter |-> TRUE,
            whole_key_filtering |-> TRUE,
            bloom_filter_bits_per_key |-> 10,
            block_based_bloom_filter |-> FALSE,
            compression_per_level |-> CompressionNone,
            write_buffer_size |-> ReadableSize_mb(128),
            max_write_buffer_number |-> 5,
            min_write_buffer_number_to_merge |-> 1,
            max_bytes_for_level_base |-> ReadableSize_mb(128),
            target_file_size_base |-> ReadableSize_mb(32),
            level0_file_num_compaction_trigger |-> 1,
            level0_slowdown_writes_trigger |-> 20,
            level0_stop_writes_trigger |-> 36,
            max_compaction_bytes |-> ReadableSize_gb(2),
            compaction_pri |-> "ByCompensatedSize"],
     q |-> 0, a |-> {}]

RaftDefaultCfConfig_default(total_kb) ==
    [v |-> [block_size |-> ReadableSize_kb(64),
            block_cache_size |-> ReadableSize_mb(memory_mb_for_cf(total_kb, TRUE, CF_DEFAULT)),
            cache_index_and_filter_blocks |-> TRUE,
            use_bloom_filter |-> FALSE,
            whole_key_filtering |-> TRUE,
            bloom_filter_bits_per_key |-> 10,
            block_based_bloom_filter |-> FALSE,
            compression_per_level |-> CompressionTiered,
            write_buffer_size |-> ReadableSize_mb(128),
            max_write_buffer_number |-> 5,
            min_write_buffer_number_to_merge |-> 1,
            max_bytes_for_level_base |-> ReadableSize_mb(512),
            target_file_size_base |-> ReadableSize_mb(32),
            level0_file_num_compaction_trigger |-> 4,
            level0_slowdown_writes_trigger |-> 20,
            level0_stop_writes_trigger |-> 36,
            max_compaction_bytes |-> ReadableSize_gb(2),
            compaction_pri |-> "ByCompensatedSize"],
     q |-> 1, a |-> {<<TRUE, CF_DEFAULT>>}]

DbConfig_default(total_kb) ==
    LET d == DefaultCfConfig_default(total_kb)
        w == WriteCfConfig_default(total_kb)
        l == LockCfConfig_default(total_kb)
        r == RaftCfConfig_default
    IN  [v |-> [wal_recovery_mode |-> "PointInTime",
                wal_dir |-> EmptyPath,
                wal_ttl_seconds |-> 0,
                wal_size_limit |-> ReadableSize_kb(0),
                max_total_wal_size |-> ReadableSize_gb(4),
                max_background_jobs |-> 6,
                max_manifest_file_size |-> ReadableSize_mb(20),
                create_if_missing |-> TRUE,
                max_open_files |-> 40960,
                enable_statistics |-> TRUE,
                stats_dump_period |-> 600,
                compaction_readahead_size |-> ReadableSize_kb(0),
                info_log_max_size |-> ReadableSize_kb(0),
                info_log_roll_time |-> 0,
                info_log_dir |-> EmptyPath,
                rate_bytes_per_sec |-> ReadableSize_kb(0),
                max_sub_compactions |-> 1,
                writable_file_max_buffer_size |-> ReadableSize_mb(1),
                use_direct_io_for_flush_and_compaction |-> FALSE,
                enable_pipelined_write |-> TRUE,
                backup_dir |-> EmptyPath,
                defaultcf |-> d.v,
                writecf |-> w.v,
                lockcf |-> l.v,
                raftcf |-> r.v],
         q |-> d.q + w.q + l.q + r.q,
         a |-> d.a \cup w.a \cup l.a \cup r.a]

RaftDbConfig_default(total_kb) ==
    LET d == RaftDefaultCfConfig_default(total_kb)
    IN  [v |-> [wal_recovery_mode |-> "PointInTime",
                wal_dir |-> EmptyPath,
                wal_ttl_seconds |-> 0,
                wal_size_limit |-> ReadableSize_kb(0),
                max_total_wal_size |-> ReadableSize_gb(4),
                max_manifest_file_size |-> ReadableSize_mb(20),
                create_if_missing |-> TRUE,
                max_open_files |-> 40960,
                enable_statistics |-> TRUE,
                stats_dump_period |-> 600,
                compaction_readahead_size |-> ReadableSize_kb(0),
                info_log_max_size |-> ReadableSize_kb(0),
                info_log_roll_time |-> 0,
                info_log_dir |-> EmptyPath,
                max_sub_compactions |-> 1,
                writable_file_max_buffer_size |-> ReadableSize_mb(1),
                use_direct_io_for_flush_and_compaction |-> FALSE,
                enable_pipelined_write |-> TRUE,
                allow_concurrent_memtable_write |-> FALSE,
                defaultcf |-> d.v],
         q |-> d.q,
         a |-> d.a]

(* #[derive(Default)] PdConfig: an empty endpoint list *)
PdConfig_default == [endpoints |-> << >>]

MetricConfig_default == [interval |-> 15, address |-> "", job |-> "tikv"]

(* storage::DEFAULT_DATA_DIR and DEFAULT_ROCKSDB_SUB_DIR *)
DEFAULT_DATA_DIR == EmptyPath
DEFAULT_ROCKSDB_SUB_DIR == "db"

(* the collaborators' subtrees, reduced to the fields this file touches *)
ServerConfig_default == [addr |-> <<"127.0.0.1", "20160">>]
StorageConfig_default == [data_dir |-> DEFAULT_DATA_DIR]
RaftstoreConfig_default == [raftdb_path |-> EmptyPath]

TiKvConfig_default(total_kb) ==
    LET db == DbConfig_default(total_kb)
        raft == RaftDbConfig_default(total_kb)
    IN  [v |-> [log_level |-> "Info",
                log_file |-> "",
                server |-> ServerConfig_default,
                metric |-> MetricConfig_default,
                raft_store |-> RaftstoreConfig_default,
                pd |-> PdConfig_default,
                rocksdb |-> db.v,
                raftdb |-> raft.v,
                storage |-> StorageConfig_default],
         q |-> db.q + raft.q,
         a |-> db.a \cup raft.a]

-----------------------------------------------------------------------------
(* Validation.  A validator yields cfg, the subtree as it leaves it, and   *)
(* err, Ok or the error it returns.                                        *)

Ok == [kind |-> "ok", what |-> << >>]
Err(kind, what) == [kind |-> kind, what |-> what]

(* the collaborators' validators: each passes or fails as the host         *)
(* decides and inspects its subtree without writing to it                  *)
StorageConfig_validate(storage, host) ==
    IF host.storage_ok THEN Ok ELSE Err("storage", << >>)
ServerConfig_validate(server, host) ==
    IF host.server_ok THEN Ok ELSE Err("server", << >>)
RaftstoreConfig_validate(raft_store, host) ==
    IF host.raftstore_ok THEN Ok ELSE Err("raftstore", << >>)

(* the for loop of PdConfig::validate from entry i on: try!(check_addr) *)
RECURSIVE PdCheckFrom(_, _)
PdCheckFrom(endpoints, i) ==
    IF i > Len(endpoints) THEN Ok
    ELSE IF ~check_addr(endpoints[i]) THEN Err("addr", endpoints[i])
    ELSE PdCheckFrom(endpoints, i + 1)

(* PdConfig::validate without the is_empty test *)
PdConfig_validate_NoEmptyCheck(pd) ==
    [cfg |-> pd, err |-> PdCheckFrom(pd.endpoints, 1)]

PdConfig_validate(pd) ==
    IF pd.endpoints = << >>
    THEN [cfg |-> pd, err |-> Err("pd.endpoints", << >>)]
    ELSE [cfg |-> pd, err |-> PdCheckFrom(pd.endpoints, 1)]

(* DbConfig::validate keeping the path as given *)
DbConfig_validate_NoCanon(db, host) ==
    IF db.backup_dir # EmptyPath
    THEN LET c == canonicalize_path(host.unusable, db.backup_dir)
         IN  IF c = NoPath
             THEN [cfg |-> db, err |-> Err("canonicalize", db.backup_dir)]
             ELSE [cfg |-> db, err |-> Ok]
    ELSE [cfg |-> db, err |-> Ok]

(* DbConfig::validate assigning the canonical path to wal_dir as well *)
DbConfig_validate_WritesWalDir(db, host) ==
    IF db.backup_dir # EmptyPath
    THEN LET c == canonicalize_path(host.unusable, db.backup_dir)
         IN  IF c = NoPath
             THEN [cfg |-> db, err |-> Err("canonicalize", db.backup_dir)]
             ELSE [cfg |-> [db EXCEPT !.backup_dir = c, !.wal_dir = c], err |-> Ok]
    ELSE [cfg |-> db, err |-> Ok]

DbConfig_validate(db, host) ==
    IF db.backup_dir # EmptyPath
    THEN LET c == canonicalize_path(host.unusable, db.backup_dir)
         IN  IF c = NoPath
             THEN [cfg |-> db, err |-> Err("canonicalize", db.backup_dir)]
             ELSE [cfg |-> [db EXCEPT !.backup_dir = c], err |-> Ok]
    ELSE [cfg |-> db, err |-> Ok]

(* the delegations with the endpoint check moved to the front *)
ValidateDelegations_PdFirst(self, host, steps) ==
    LET pd == PdConfig_validate(self.pd)
        db == DbConfig_validate(self.rocksdb, host)
        c3 == [self EXCEPT !.rocksdb = db.cfg]
        s6 == Append(steps, "pd")
        s7 == Append(s6, "rocksdb")
        s8 == Append(s7, "server")
        s9 == Append(s8, "raft_store")
        sv == ServerConfig_validate(c3.server, host)
        rs == RaftstoreConfig_validate(c3.raft_store, host)
    IN  IF pd.err # Ok THEN [cfg |-> self, err |-> pd.err, steps |-> s6]
        ELSE IF db.err # Ok THEN [cfg |-> c3, err |-> db.err, steps |-> s7]
        ELSE IF sv # Ok THEN [cfg |-> c3, err |-> sv, steps |-> s8]
        ELSE [cfg |-> c3, err |-> rs, steps |-> s9]

(* the delegations without the endpoint check *)
ValidateDelegations_SkipsPd(self, host, steps) ==
    LET db == DbConfig_validate(self.rocksdb, host)
        c3 == [self EXCEPT !.rocksdb = db.cfg]
        s6 == Append(steps, "rocksdb")
        s7 == Append(s6, "server")
        s8 == Append(s7, "raft_store")
        sv == ServerConfig_validate(c3.server, host)
        rs == RaftstoreConfig_validate(c3.raft_store, host)
    IN  IF db.err # Ok THEN [cfg |-> c3, err |-> db.err, steps |-> s6]
        ELSE IF sv # Ok THEN [cfg |-> c3, err |-> sv, steps |-> s7]
        ELSE [cfg |-> c3, err |-> rs, steps |-> s8]

(* the tail of TiKvConfig::validate: the four delegations of lines 686-689 *)
ValidateDelegations(self, host, steps) ==
    LET db == DbConfig_validate(self.rocksdb, host)
        c3 == [self EXCEPT !.rocksdb = db.cfg]
        s6 == Append(steps, "rocksdb")
        s7 == Append(s6, "server")
        s8 == Append(s7, "raft_store")
        s9 == Append(s8, "pd")
        sv == ServerConfig_validate(c3.server, host)
        rs == RaftstoreConfig_validate(c3.raft_store, host)
        pd == PdConfig_validate(c3.pd)
    IN  IF db.err # Ok THEN [cfg |-> c3, err |-> db.err, steps |-> s6]
        ELSE IF sv # Ok THEN [cfg |-> c3, err |-> sv, steps |-> s7]
        ELSE IF rs # Ok THEN [cfg |-> c3, err |-> rs, steps |-> s8]
        ELSE [cfg |-> c3, err |-> pd.err, steps |-> s9]

(* the path checks without the comparison of the two paths *)
ValidatePaths_NoCollisionCheck(self, host, steps) ==
    LET kv_db_path == canonicalize_sub_path(host.unusable, self.storage.data_dir,
                                            DEFAULT_ROCKSDB_SUB_DIR)
        raftdb_path == self.raft_store.raftdb_path
        s3 == Append(steps, "kv_db_path")
        s4 == Append(s3, "collision")
        s5 == Append(s4, "exist")
    IN  IF kv_db_path = NoPath
        THEN [cfg |-> self, steps |-> s3,
              err |-> Err("canonicalize",
                          PathJoin(self.storage.data_dir, DEFAULT_ROCKSDB_SUB_DIR))]
        ELSE IF db_exist(host.dbs, kv_db_path) /\ ~db_exist(host.dbs, raftdb_path)
        THEN [cfg |-> self, err |-> Err("kv exist, raft not", raftdb_path), steps |-> s5]
        ELSE IF ~db_exist(host.dbs, kv_db_path) /\ db_exist(host.dbs, raftdb_path)
        THEN [cfg |-> self, err |-> Err("raft exist, kv not", raftdb_path), steps |-> s5]
        ELSE ValidateDelegations(self, host, s5)

(* the path checks with only the first of the two existence checks *)
ValidatePaths_OneSidedExist(self, host, steps) ==
    LET kv_db_path == canonicalize_sub_path(host.unusable, self.storage.data_dir,
                                            DEFAULT_ROCKSDB_SUB_DIR)
        raftdb_path == self.raft_store.raftdb_path
        s3 == Append(steps, "kv_db_path")
        s4 == Append(s3, "collision")
        s5 == Append(s4, "exist")
    IN  IF kv_db_path = NoPath
        THEN [cfg |-> self, steps |-> s3,
              err |-> Err("canonicalize",
                          PathJoin(self.storage.data_dir, DEFAULT_ROCKSDB_SUB_DIR))]
        ELSE IF kv_db_path = raftdb_path
        THEN [cfg |-> self, err |-> Err("same path", raftdb_path), steps |-> s4]
        ELSE IF db_exist(host.dbs, kv_db_path) /\ ~db_exist(host.dbs, raftdb_path)
        THEN [cfg |-> self, err |-> Err("kv exist, raft not", raftdb_path), steps |-> s5]
        ELSE ValidateDelegations(self, host, s5)

(* the middle of TiKvConfig::validate, lines 669-684: the main engine's    *)
(* path, the collision check and the two existence checks                  *)
ValidatePaths(self, host, steps) ==
    LET kv_db_path == canonicalize_sub_path(host.unusable, self.storage.data_dir,
                                            DEFAULT_ROCKSDB_SUB_DIR)
        raftdb_path == self.raft_store.raftdb_path
        s3 == Append(steps, "kv_db_path")
        s4 == Append(s3, "collision")
        s5 == Append(s4, "exist")
    IN  IF kv_db_path = NoPath
        THEN [cfg |-> self, steps |-> s3,
              err |-> Err("canonicalize",
                          PathJoin(self.storage.data_dir, DEFAULT_ROCKSDB_SUB_DIR))]
        ELSE IF kv_db_path = raftdb_path
        THEN [cfg |-> self, err |-> Err("same path", raftdb_path), steps |-> s4]
        ELSE IF db_exist(host.dbs, kv_db_path) /\ ~db_exist(host.dbs, raftdb_path)
        THEN [cfg |-> self, err |-> Err("kv exist, raft not", raftdb_path), steps |-> s5]
        ELSE IF ~db_exist(host.dbs, kv_db_path) /\ db_exist(host.dbs, raftdb_path)
        THEN [cfg |-> self, err |-> Err("raft exist, kv not", raftdb_path), steps |-> s5]
        ELSE ValidateDelegations(self, host, s5)

(* validate deriving the backup directory before storage validation *)
TiKvConfig_validate_DeriveBeforeStorage(self, host) ==
    LET st == StorageConfig_validate(self.storage, host)
        s0 == <<"storage">>
        c1 == IF self.rocksdb.backup_dir = EmptyPath
                 /\ self.storage.data_dir # DEFAULT_DATA_DIR
              THEN [self EXCEPT !.rocksdb.backup_dir =
                                    PathJoin(self.storage.data_dir, "backup")]
              ELSE self
        s1 == Append(s0, "backup_dir")
        raw == IF c1.raft_store.raftdb_path = EmptyPath
               THEN PathJoin(c1.storage.data_dir, "raft")
               ELSE c1.raft_store.raftdb_path
        raft == IF c1.raft_store.raftdb_path = EmptyPath
                THEN canonicalize_sub_path(host.unusable, c1.storage.data_dir, "raft")
                ELSE canonicalize_path(host.unusable, c1.raft_store.raftdb_path)
        s2 == Append(s1, "raftdb_path")
    IN  IF st # Ok THEN [cfg |-> c1, err |-> st, steps |-> s0]
        ELSE IF raft = NoPath
        THEN [cfg |-> c1, err |-> Err("canonicalize", raw), steps |-> s2]
        ELSE ValidatePaths([c1 EXCEPT !.raft_store.raftdb_path = raft], host, s2)

(* validate taking a user-supplied raftdb_path as relative to the data     *)
(* directory                                                               *)
TiKvConfig_validate_JoinsUserPath(self, host) ==
    LET st == StorageConfig_validate(self.storage, host)
        s0 == <<"storage">>
        c1 == IF self.rocksdb.backup_dir = EmptyPath
                 /\ self.storage.data_dir # DEFAULT_DATA_DIR
              THEN [self EXCEPT !.rocksdb.backup_dir =
                                    PathJoin(self.storage.data_dir, "backup")]
              ELSE self
        s1 == Append(s0, "backup_dir")
        raw == IF c1.raft_store.raftdb_path = EmptyPath
               THEN PathJoin(c1.storage.data_dir, "raft")
               ELSE c1.storage.data_dir \o c1.raft_store.raftdb_path
        raft == canonicalize_path(host.unusable, raw)
        s2 == Append(s1, "raftdb_path")
    IN  IF st # Ok THEN [cfg |-> self, err |-> st, steps |-> s0]
        ELSE IF raft = NoPath
        THEN [cfg |-> c1, err |-> Err("canonicalize", raw), steps |-> s2]
        ELSE ValidatePaths([c1 EXCEPT !.raft_store.raftdb_path = raft], host, s2)

(* validate joining "backup" onto a backup directory that is already set *)
TiKvConfig_validate_NestsBackup(self, host) ==
    LET st == StorageConfig_validate(self.storage, host)
        s0 == <<"storage">>
        c1 == IF self.storage.data_dir # DEFAULT_DATA_DIR
              THEN [self EXCEPT !.rocksdb.backup_dir =
                                    IF @ = EmptyPath
                                    THEN PathJoin(self.storage.data_dir, "backup")
                                    ELSE PathJoin(@, "backup")]
              ELSE self
        s1 == Append(s0, "backup_dir")
        raw == IF c1.raft_store.raftdb_path = EmptyPath
               THEN PathJoin(c1.storage.data_dir, "raft")
               ELSE c1.raft_store.raftdb_path
        raft == IF c1.raft_store.raftdb_path = EmptyPath
                THEN canonicalize_sub_path(host.unusable, c1.storage.data_dir, "raft")
                ELSE canonicalize_path(host.unusable, c1.raft_store.raftdb_path)
        s2 == Append(s1, "raftdb_path")
    IN  IF st # Ok THEN [cfg |-> self, err |-> st, steps |-> s0]
        ELSE IF raft = NoPath
        THEN [cfg |-> c1, err |-> Err("canonicalize", raw), steps |-> s2]
        ELSE ValidatePaths([c1 EXCEPT !.raft_store.raftdb_path = raft], host, s2)

(* TiKvConfig::validate(&mut self): cfg is the tree as the call leaves it, *)
(* err its result, steps the steps it ran, in order                        *)
TiKvConfig_validate(self, host) ==
    LET st == StorageConfig_validate(self.storage, host)
        s0 == <<"storage">>
        c1 == IF self.rocksdb.backup_dir = EmptyPath
                 /\ self.storage.data_dir # DEFAULT_DATA_DIR
              THEN [self EXCEPT !.rocksdb.backup_dir =
                                    PathJoin(self.storage.data_dir, "backup")]
              ELSE self
        s1 == Append(s0, "backup_dir")
        raw == IF c1.raft_store.raftdb_path = EmptyPath
               THEN PathJoin(c1.storage.data_dir, "raft")
               ELSE c1.raft_store.raftdb_path
        raft == IF c1.raft_store.raftdb_path = EmptyPath
                THEN canonicalize_sub_path(host.unusable, c1.storage.data_dir, "raft")
                ELSE canonicalize_path(host.unusable, c1.raft_store.raftdb_path)
        s2 == Append(s1, "raftdb_path")
    IN  IF st # Ok THEN [cfg |-> self, err |-> st, steps |-> s0]
        ELSE IF raft = NoPath
        THEN [cfg |-> c1, err |-> Err("canonicalize", raw), steps |-> s2]
        ELSE ValidatePaths([c1 EXCEPT !.raft_store.raftdb_path = raft], host, s2)

-----------------------------------------------------------------------------
(* Documents.  A document is a table: a function from keys to values,     *)
(* each value a nested table or the text of a leaf.  Keys are written as   *)
(* the field names (the kebab-case renaming changes no key's identity);    *)
(* the key of raft_store is "raftstore".  A size is written as a count and *)
(* a unit, a duration as a sequence of such parts, the compaction priority *)
(* and the recovery mode as numbers, the log level in lower case.          *)

EmptyTable == << >>
Has(table, key) == key \in DOMAIN table

(* util::config::ReadableSize: the largest unit that divides the size *)
ReadableSize_serialize(size) ==
    IF size = 0 THEN [n |-> 0, unit |-> "KB"]
    ELSE IF size % GB = 0 THEN [n |-> size \div GB, unit |-> "GB"]
    ELSE IF size % MB = 0 THEN [n |-> size \div MB, unit |-> "MB"]
    ELSE [n |-> size \div KB, unit |-> "KB"]
ReadableSize_deserialize(text) ==
    text.n * (CASE text.unit = "GB" -> GB [] text.unit = "MB" -> MB [] OTHER -> KB)

(* util::config::ReadableDuration, in seconds: hours, minutes, seconds *)
ReadableDuration_serialize(secs) ==
    LET h == secs \div 3600
        m == (secs % 3600) \div 60
        r == secs % 60
    IN  IF secs = 0 THEN << [n |-> 0, unit |-> "s"] >>
        ELSE (IF h > 0 THEN << [n |-> h, unit |-> "h"] >> ELSE << >>)
             \o (IF m > 0 THEN << [n |-> m, unit |-> "m"] >> ELSE << >>)
             \o (IF r > 0 THEN << [n |-> r, unit |-> "s"] >> ELSE << >>)
RECURSIVE ReadableDuration_deserialize(_)
ReadableDuration_deserialize(text) ==
    IF text = << >> THEN 0
    ELSE Head(text).n * (CASE Head(text).unit = "h" -> 3600
                           [] Head(text).unit = "m" -> 60
                           [] OTHER -> 1)
         + ReadableDuration_deserialize(Tail(text))

(* util::config::compaction_pri_serde and recovery_mode_serde *)
CompactionPriNames ==
    <<"ByCompensatedSize", "OldestLargestSeqFirst", "OldestSmallestSeqFirst",
      "MinOverlappingRatio">>
RecoveryModeNames ==
    <<"TolerateCorruptedTailRecords", "AbsoluteConsistency", "PointInTime",
      "SkipAnyCorruptedRecords">>
IndexIn(names, name) == CHOOSE i \in 1..Len(names) : names[i] = name

(* enum LogLevel, #[serde(remote = "LogLevelFilter", rename_all = "kebab-case")] *)
LogLevel_serialize(level) ==
    CASE level = "Info" -> "info" [] level = "Trace" -> "trace"
      [] level = "Debug" -> "debug" [] level = "Warn" -> "warn"
      [] level = "Error" -> "error" [] level = "Off" -> "off"
LogLevel_deserialize(text) ==
    CASE text = "info" -> "Info" [] text = "trace" -> "Trace"
      [] text = "debug" -> "Debug" [] text = "warn" -> "Warn"
      [] text = "error" -> "Error" [] text = "off" -> "Off"

FormatLeaf(kind, value) ==
    CASE kind = "size" -> ReadableSize_serialize(value)
      [] kind = "duration" -> ReadableDuration_serialize(value)
      [] kind = "pri" -> IndexIn(CompactionPriNames, value) - 1
      [] kind = "mode" -> IndexIn(RecoveryModeNames, value) - 1
      [] kind = "level" -> LogLevel_serialize(value)
      [] OTHER -> value
ParseLeaf(kind, text) ==
    CASE kind = "size" -> ReadableSize_deserialize(text)
      [] kind = "duration" -> ReadableDuration_deserialize(text)
      [] kind = "pri" -> CompactionPriNames[text + 1]
      [] kind = "mode" -> RecoveryModeNames[text + 1]
      [] kind = "level" -> LogLevel_deserialize(text)
      [] OTHER -> text

(* the leaf types of the structs' fields *)
CfKind(f) ==
    CASE f \in {"block_size", "block_cache_size", "write_buffer_size",
                "max_bytes_for_level_base", "target_file_size_base",
                "max_compaction_bytes"} -> "size"
      [] f = "compaction_pri" -> "pri"
      [] OTHER -> "plain"
DbKind(f) ==
    CASE f \in {"wal_size_limit", "max_total_wal_size", "max_manifest_file_size",
                "compaction_readahead_size", "info_log_max_size",
                "rate_bytes_per_sec", "writable_file_max_buffer_size"} -> "size"
      [] f \in {"stats_dump_period", "info_log_roll_time"} -> "duration"
      [] f = "wal_recovery_mode" -> "mode"
      [] f \in {"defaultcf", "writecf", "lockcf", "raftcf"} -> "table"
      [] OTHER -> "plain"
MetricKind(f) == IF f = "interval" THEN "duration" ELSE "plain"
PlainKind(f) == "plain"
TopKind(f) ==
    CASE f = "log_level" -> "level"
      [] f = "log_file" -> "plain"
      [] OTHER -> "table"
(* the leaf type of field f in a struct of the given sort *)
KindOf(kinds, f) ==
    CASE kinds = "cf" -> CfKind(f)
      [] kinds = "db" -> DbKind(f)
      [] kinds = "metric" -> MetricKind(f)
      [] kinds = "top" -> TopKind(f)
      [] OTHER -> PlainKind(f)
(* #[serde(rename = "raftstore")] *)
KeyOf(f) == IF f = "raft_store" THEN "raftstore" ELSE f

-----------------------------------------------------------------------------
(* #[derive(Serialize)]: every field is written, under its key *)

SerializeFields(value, kinds) ==
    [f \in DOMAIN value |-> FormatLeaf(KindOf(kinds, f), value[f])]

(* faulty: the lock CF's table is written under every column family's key *)
DbConfig_serialize_LockEverywhere(db) ==
    [f \in DOMAIN db |->
        IF DbKind(f) = "table"
        THEN SerializeFields(IF "lockcf" \in DOMAIN db THEN db.lockcf ELSE db[f], "cf")
        ELSE FormatLeaf(DbKind(f), db[f])]

DbConfig_serialize(db) ==
    [f \in DOMAIN db |->
        IF DbKind(f) = "table" THEN SerializeFields(db[f], "cf")
        ELSE FormatLeaf(DbKind(f), db[f])]

TiKvConfig_serialize(t) ==
    [k \in {KeyOf(f) : f \in DOMAIN t} |->
        CASE k = "log_level" -> FormatLeaf("level", t.log_level)
          [] k = "log_file" -> t.log_file
          [] k = "server" -> SerializeFields(t.server, "plain")
          [] k = "storage" -> SerializeFields(t.storage, "plain")
          [] k = "pd" -> SerializeFields(t.pd, "plain")
          [] k = "metric" -> SerializeFields(t.metric, "metric")
          [] k = "raftstore" -> SerializeFields(t.raft_store, "plain")
          [] k = "rocksdb" -> DbConfig_serialize(t.rocksdb)
          [] k = "raftdb" -> DbConfig_serialize(t.raftdb)]

-----------------------------------------------------------------------------
(* #[derive(Deserialize)] with #[serde(default)]: deserializing a table    *)
(* first constructs the struct's default, then overwrites the fields whose *)
(* keys are present; keys that name no field are ignored.  A deserializer  *)
(* yields v, q and a as the constructors do.                               *)

(* faulty: a compaction priority in the document is dropped *)
DeserializeFields_PriFallsBack(default, table, kinds) ==
    [f \in DOMAIN default |->
        IF Has(table, KeyOf(f)) /\ KindOf(kinds, f) \notin {"table", "pri"}
        THEN ParseLeaf(KindOf(kinds, f), table[KeyOf(f)])
        ELSE default[f]]

DeserializeFields(default, table, kinds) ==
    [f \in DOMAIN default |->
        IF Has(table, KeyOf(f)) /\ KindOf(kinds, f) # "table"
        THEN ParseLeaf(KindOf(kinds, f), table[KeyOf(f)])
        ELSE default[f]]

(* a struct without memory-derived defaults *)
Plain_deserialize(default, table, kinds) ==
    [v |-> DeserializeFields(default, table, kinds), q |-> 0, a |-> {}]

(* one of the five column-family structs; base is its default() *)
CfConfig_deserialize(base, table) ==
    [v |-> DeserializeFields(base.v, table, "cf"), q |-> base.q, a |-> base.a]

RECURSIVE Queries(_, _)
Queries(parts, fields) ==
    IF fields = {} THEN 0
    ELSE LET f == CHOOSE x \in fields : TRUE
         IN  parts[f].q + Queries(parts, fields \ {f})

(* a struct with fields that are structs: base is its default(), parts the *)
(* deserialized structs of the keys that are present; a struct whose key   *)
(* is absent stays as the enclosing default() made it                      *)
Struct_deserialize(base, table, kinds, parts) ==
    [v |-> [f \in DOMAIN base.v |->
               IF f \in DOMAIN parts THEN parts[f].v
               ELSE DeserializeFields(base.v, table, kinds)[f]],
     q |-> base.q + Queries(parts, DOMAIN parts),
     a |-> base.a \cup UNION {parts[f].a : f \in DOMAIN parts}]

DbConfig_deserialize(table, total_kb) ==
    Struct_deserialize(DbConfig_default(total_kb), table, "db",
        [f \in {"defaultcf", "writecf", "lockcf", "raftcf"} \cap DOMAIN table |->
            CfConfig_deserialize(
                CASE f = "defaultcf" -> DefaultCfConfig_default(total_kb)
                  [] f = "writecf" -> WriteCfConfig_default(total_kb)
                  [] f = "lockcf" -> LockCfConfig_default(total_kb)
                  [] f = "raftcf" -> RaftCfConfig_default,
                table[f])])

RaftDbConfig_deserialize(table, total_kb) ==
    Struct_deserialize(RaftDbConfig_default(total_kb), table, "db",
        [f \in {"defaultcf"} \cap DOMAIN table |->
            CfConfig_deserialize(RaftDefaultCfConfig_default(total_kb), table[f])])

TiKvConfig_deserialize(doc, total_kb) ==
    Struct_deserialize(TiKvConfig_default(total_kb), doc, "top",
        [f \in {g \in {"server", "storage", "pd", "metric", "raft_store",
                       "rocksdb", "raftdb"} : Has(doc, KeyOf(g))} |->
            CASE f = "server" ->
                     Plain_deserialize(ServerConfig_default, doc[KeyOf(f)], "plain")
              [] f = "storage" ->
                     Plain_deserialize(StorageConfig_default, doc[KeyOf(f)], "plain")
              [] f = "pd" ->
                     Plain_deserialize(PdConfig_default, doc[KeyOf(f)], "plain")
              [] f = "metric" ->
                     Plain_deserialize(MetricConfig_default, doc[KeyOf(f)], "metric")
              [] f = "raft_store" ->
                     Plain_deserialize(RaftstoreConfig_default, doc[KeyOf(f)], "plain")
              [] f = "rocksdb" -> DbConfig_deserialize(doc[KeyOf(f)], total_kb)
              [] f = "raftdb" -> RaftDbConfig_deserialize(doc[KeyOf(f)], total_kb)])

-----------------------------------------------------------------------------
(* Option objects.  An option object records what was set on it: every     *)
(* setting is << >> until a setter gives it a value, <<value>> after; the  *)
(* lists (collector factories, event listeners) start empty.               *)

NotSet == << >>
Set(value) == <<value>>

BlockBasedOptions_new ==
    [block_size |-> NotSet, lru_cache |-> NotSet,
     cache_index_and_filter_blocks |-> NotSet,
     bloom_filter |-> NotSet, whole_key_filtering |-> NotSet]

ColumnFamilyOptions_new ==
    [block_based_table_factory |-> NotSet, compression_per_level |-> NotSet,
     write_buffer_size |-> NotSet, max_write_buffer_number |-> NotSet,
     min_write_buffer_number_to_merge |-> NotSet,
     max_bytes_for_level_base |-> NotSet, target_file_size_base |-> NotSet,
     level_zero_file_num_compaction_trigger |-> NotSet,
     level_zero_slowdown_writes_trigger |-> NotSet,
     level_zero_stop_writes_trigger |-> NotSet,
     max_compaction_bytes |-> NotSet, compaction_priority |-> NotSet,
     prefix_extractor |-> NotSet,
     memtable_insert_hint_prefix_extractor |-> NotSet,
     memtable_prefix_bloom_size_ratio |-> NotSet,
     table_properties_collector_factories |-> << >>]

DBOptions_new ==
    [wal_recovery_mode |-> NotSet, wal_dir |-> NotSet, wal_ttl_seconds |-> NotSet,
     wal_size_limit_mb |-> NotSet, max_total_wal_size |-> NotSet,
     max_background_jobs |-> NotSet, max_manifest_file_size |-> NotSet,
     create_if_missing |-> NotSet, max_open_files |-> NotSet,
     statistics |-> NotSet, stats_dump_period_sec |-> NotSet,
     compaction_readahead_size |-> NotSet, max_log_file_size |-> NotSet,
     log_file_time_to_roll |-> NotSet, info_log |-> NotSet,
     ratelimiter |-> NotSet, max_subcompactions |-> NotSet,
     writable_file_max_buffer_size |-> NotSet,
     use_direct_io_for_flush_and_compaction |-> NotSet,
     pipelined_write |-> NotSet, allow_concurrent_memtable_write |-> NotSet,
     event_listeners |-> << >>]

(* faulty: the whole-key-filtering flag is applied outside the guard *)
build_cf_opt_AlwaysWholeKey(opt) ==
    LET block_base_opts ==
            [BlockBasedOptions_new EXCEPT
                !.block_size = Set(opt.block_size),
                !.lru_cache = Set(opt.block_cache_size),
                !.cache_index_and_filter_blocks = Set(opt.cache_index_and_filter_blocks),
                !.bloom_filter =
                    IF opt.use_bloom_filter
                    THEN Set([bits_per_key |-> opt.bloom_filter_bits_per_key,
                              block_based |-> opt.block_based_bloom_filter])
                    ELSE @,
                !.whole_key_filtering = Set(opt.whole_key_filtering)]
    IN  [ColumnFamilyOptions_new EXCEPT
            !.block_based_table_factory = Set(block_base_opts),
            !.compression_per_level = Set(opt.compression_per_level),
            !.write_buffer_size = Set(opt.write_buffer_size),
            !.max_write_buffer_number = Set(opt.max_write_buffer_number),
            !.min_write_buffer_number_to_merge = Set(opt.min_write_buffer_number_to_merge),
            !.max_bytes_for_level_base = Set(opt.max_bytes_for_level_base),
            !.target_file_size_base = Set(opt.target_file_size_base),
            !.level_zero_file_num_compaction_trigger =
                Set(opt.level0_file_num_compaction_trigger),
            !.level_zero_slowdown_writes_trigger =
                Set(opt.level0_slowdown_writes_trigger),
            !.level_zero_stop_writes_trigger = Set(opt.level0_stop_writes_trigger),
            !.max_compaction_bytes = Set(opt.max_compaction_bytes),
            !.compaction_priority = Set(opt.compaction_pri)]

(* build_cf_opt_OrdersLevel0: the thresholds are put in order first *)
build_cf_opt_OrdersLevel0(opt) ==
    LET Max(a, b) == IF a >= b THEN a ELSE b
        block_base_opts ==
            [BlockBasedOptions_new EXCEPT
                !.block_size = Set(opt.block_size),
                !.lru_cache = Set(opt.block_cache_size),
                !.cache_index_and_filter_blocks = Set(opt.cache_index_and_filter_blocks),
                !.bloom_filter =
                    IF opt.use_bloom_filter
                    THEN Set([bits_per_key |-> opt.bloom_filter_bits_per_key,
                              block_based |-> opt.block_based_bloom_filter])
                    ELSE @,
                !.whole_key_filtering =
                    IF opt.use_bloom_filter THEN Set(opt.whole_key_filtering) ELSE @]
    IN  [ColumnFamilyOptions_new EXCEPT
            !.block_based_table_factory = Set(block_base_opts),
            !.compression_per_level = Set(opt.compression_per_level),
            !.write_buffer_size = Set(opt.write_buffer_size),
            !.max_write_buffer_number = Set(opt.max_write_buffer_number),
            !.min_write_buffer_number_to_merge = Set(opt.min_write_buffer_number_to_merge),
            !.max_bytes_for_level_base = Set(opt.max_bytes_for_level_base),
            !.target_file_size_base = Set(opt.target_file_size_base),
            !.level_zero_file_num_compaction_trigger =
                Set(opt.level0_file_num_compaction_trigger),
            !.level_zero_slowdown_writes_trigger =
                Set(Max(opt.level0_file_num_compaction_trigger,
                        opt.level0_slowdown_writes_trigger)),
            !.level_zero_stop_writes_trigger =
                Set(Max(Max(opt.level0_file_num_compaction_trigger,
                            opt.level0_slowdown_writes_trigger),
                        opt.level0_stop_writes_trigger)),
            !.max_compaction_bytes = Set(opt.max_compaction_bytes),
            !.compaction_priority = Set(opt.compaction_pri)]

(* macro build_cf_opt!: the settings common to the five variants *)
build_cf_opt(opt) ==
    LET block_base_opts ==
            [BlockBasedOptions_new EXCEPT
                !.block_size = Set(opt.block_size),
                !.lru_cache = Set(opt.block_cache_size),
                !.cache_index_and_filter_blocks = Set(opt.cache_index_and_filter_blocks),
                !.bloom_filter =
                    IF opt.use_bloom_filter
                    THEN Set([bits_per_key |-> opt.bloom_filter_bits_per_key,
                              block_based |-> opt.block_based_bloom_filter])
                    ELSE @,
                !.whole_key_filtering =
                    IF opt.use_bloom_filter THEN Set(opt.whole_key_filtering) ELSE @]
    IN  [ColumnFamilyOptions_new EXCEPT
            !.block_based_table_factory = Set(block_base_opts),
            !.compression_per_level = Set(opt.compression_per_level),
            !.write_buffer_size = Set(opt.write_buffer_size),
            !.max_write_buffer_number = Set(opt.max_write_buffer_number),
            !.min_write_buffer_number_to_merge = Set(opt.min_write_buffer_number_to_merge),
            !.max_bytes_for_level_base = Set(opt.max_bytes_for_level_base),
            !.target_file_size_base = Set(opt.target_file_size_base),
            !.level_zero_file_num_compaction_trigger =
                Set(opt.level0_file_num_compaction_trigger),
            !.level_zero_slowdown_writes_trigger =
                Set(opt.level0_slowdown_writes_trigger),
            !.level_zero_stop_writes_trigger = Set(opt.level0_stop_writes_trigger),
            !.max_compaction_bytes = Set(opt.max_compaction_bytes),
            !.compaction_priority = Set(opt.compaction_pri)]

(* the slice transforms and the property collectors *)
FixedSuffixSliceTransform(suffix_len) == [transform |-> "FixedSuffix", len |-> suffix_len]
FixedPrefixSliceTransform(prefix_len) == [transform |-> "FixedPrefix", len |-> prefix_len]
NoopSliceTransform == [transform |-> "Noop", len |-> 0]
Extractor(name, transform) == [name |-> name, transform |-> transform]
SIZE_COLLECTOR == "tikv.size-properties-collector"
MVCC_COLLECTOR == "tikv.mvcc-properties-collector"
(* raftstore::store::keys::region_raft_prefix_len(): the two-byte region   *)
(* prefix, the eight-byte region id and the one-byte suffix                *)
region_raft_prefix_len == 11
(* the ratio 0.1, as numerator and denominator *)
PrefixBloomRatio == <<1, 10>>

DefaultCfConfig_build_opt(self) ==
    LET cf_opts == build_cf_opt(self)
    IN  [cf_opts EXCEPT
            !.table_properties_collector_factories = Append(@, SIZE_COLLECTOR)]

(* faulty: the builder gives up and returns nothing *)
WriteCfConfig_build_opt_Fails(self) ==
    IF self.use_bloom_filter THEN build_cf_opt(self) ELSE [none |-> TRUE]

WriteCfConfig_build_opt(self) ==
    LET cf_opts == build_cf_opt(self)
    IN  [cf_opts EXCEPT
            !.prefix_extractor =
                Set(Extractor("FixedSuffixSliceTransform", FixedSuffixSliceTransform(8))),
            !.memtable_prefix_bloom_size_ratio = Set(PrefixBloomRatio),
            !.table_properties_collector_factories =
                Append(Append(@, MVCC_COLLECTOR), SIZE_COLLECTOR)]

LockCfConfig_build_opt(self) ==
    LET cf_opts == build_cf_opt(self)
    IN  [cf_opts EXCEPT
            !.prefix_extractor = Set(Extractor("NoopSliceTransform", NoopSliceTransform)),
            !.memtable_prefix_bloom_size_ratio = Set(PrefixBloomRatio)]

RaftCfConfig_build_opt(self) ==
    LET cf_opts == build_cf_opt(self)
    IN  [cf_opts EXCEPT
            !.prefix_extractor = Set(Extractor("NoopSliceTransform", NoopSliceTransform)),
            !.memtable_prefix_bloom_size_ratio = Set(PrefixBloomRatio)]

(* faulty: the extractor is registered as the prefix extractor *)
RaftDefaultCfConfig_build_opt_AsPrefixExtractor(self) ==
    LET cf_opts == build_cf_opt(self)
    IN  [cf_opts EXCEPT
            !.prefix_extractor =
                Set(Extractor("RaftPrefixSliceTransform",
                              FixedPrefixSliceTransform(region_raft_prefix_len)))]

RaftDefaultCfConfig_build_opt(self) ==
    LET cf_opts == build_cf_opt(self)
    IN  [cf_opts EXCEPT
            !.memtable_insert_hint_prefix_extractor =
                Set(Extractor("RaftPrefixSliceTransform",
                              FixedPrefixSliceTransform(region_raft_prefix_len)))]

(* ReadableSize::as_mb *)
ReadableSize_as_mb(size) == size \div MB
(* a byte count `as i32`: the low 32 bits, two's complement; a multiple of *)
(* 1024 bytes stays one                                                    *)
AsI32(size) ==
    LET m == size % (4 * GB)
    IN  IF m >= 2 * GB THEN m - 4 * GB ELSE m

(* DBOptions::create_info_log: fails where the directory cannot be made *)
create_info_log(unusable, dir) == dir \notin unusable

(* the result of an engine builder: the options, or the process aborted *)
NoOptions == [none |-> TRUE]
Built(opts) == [aborted |-> FALSE, o |-> opts]
Panicked == [aborted |-> TRUE, o |-> NoOptions]

(* faulty: the dump period is set outside the statistics guard *)
build_db_opt_PeriodUnguarded(self) ==
    [DBOptions_new EXCEPT
        !.wal_recovery_mode = Set(self.wal_recovery_mode),
        !.wal_dir = IF self.wal_dir # EmptyPath THEN Set(self.wal_dir) ELSE @,
        !.wal_ttl_seconds = Set(self.wal_ttl_seconds),
        !.wal_size_limit_mb = Set(ReadableSize_as_mb(self.wal_size_limit)),
        !.max_total_wal_size = Set(self.max_total_wal_size),
        !.max_manifest_file_size = Set(self.max_manifest_file_size),
        !.create_if_missing = Set(self.create_if_missing),
        !.max_open_files = Set(self.max_open_files),
        !.statistics = IF self.enable_statistics THEN Set(TRUE) ELSE @,
        !.stats_dump_period_sec = Set(self.stats_dump_period),
        !.compaction_readahead_size = Set(self.compaction_readahead_size),
        !.max_log_file_size = Set(self.info_log_max_size),
        !.log_file_time_to_roll = Set(self.info_log_roll_time),
        !.info_log = IF self.info_log_dir # EmptyPath THEN Set(self.info_log_dir) ELSE @,
        !.max_subcompactions = Set(self.max_sub_compactions),
        !.writable_file_max_buffer_size = Set(AsI32(self.writable_file_max_buffer_size)),
        !.use_direct_io_for_flush_and_compaction =
            Set(self.use_direct_io_for_flush_and_compaction),
        !.pipelined_write = Set(self.enable_pipelined_write)]

(* the settings DbConfig::build_opt and RaftDbConfig::build_opt share *)
build_db_opt(self) ==
    [DBOptions_new EXCEPT
        !.wal_recovery_mode = Set(self.wal_recovery_mode),
        !.wal_dir = IF self.wal_dir # EmptyPath THEN Set(self.wal_dir) ELSE @,
        !.wal_ttl_seconds = Set(self.wal_ttl_seconds),
        !.wal_size_limit_mb = Set(ReadableSize_as_mb(self.wal_size_limit)),
        !.max_total_wal_size = Set(self.max_total_wal_size),
        !.max_manifest_file_size = Set(self.max_manifest_file_size),
        !.create_if_missing = Set(self.create_if_missing),
        !.max_open_files = Set(self.max_open_files),
        !.statistics = IF self.enable_statistics THEN Set(TRUE) ELSE @,
        !.stats_dump_period_sec =
            IF self.enable_statistics THEN Set(self.stats_dump_period) ELSE @,
        !.compaction_readahead_size = Set(self.compaction_readahead_size),
        !.max_log_file_size = Set(self.info_log_max_size),
        !.log_file_time_to_roll = Set(self.info_log_roll_time),
        !.info_log = IF self.info_log_dir # EmptyPath THEN Set(self.info_log_dir) ELSE @,
        !.max_subcompactions = Set(self.max_sub_compactions),
        !.writable_file_max_buffer_size = Set(AsI32(self.writable_file_max_buffer_size)),
        !.use_direct_io_for_flush_and_compaction =
            Set(self.use_direct_io_for_flush_and_compaction),
        !.pipelined_write = Set(self.enable_pipelined_write)]

(* faulty: the rate limiter is attached whatever the rate *)
DbConfig_build_opt_AlwaysLimits(self, unusable) ==
    IF self.info_log_dir # EmptyPath /\ ~create_info_log(unusable, self.info_log_dir)
    THEN Panicked
    ELSE Built([build_db_opt(self) EXCEPT
                    !.max_background_jobs = Set(self.max_background_jobs),
                    !.ratelimiter = Set(self.rate_bytes_per_sec),
                    !.event_listeners = Append(@, "kv")])

(* faulty: the builder goes on without the info log *)
DbConfig_build_opt_IgnoresLogFailure(self, unusable) ==
    Built([build_db_opt(self) EXCEPT
              !.max_background_jobs = Set(self.max_background_jobs),
              !.ratelimiter =
                  IF self.rate_bytes_per_sec > 0
                  THEN Set(self.rate_bytes_per_sec) ELSE @,
              !.event_listeners = Append(@, "kv")])

DbConfig_build_opt(self, unusable) ==
    IF self.info_log_dir # EmptyPath /\ ~create_info_log(unusable, self.info_log_dir)
    THEN Panicked
    ELSE Built([build_db_opt(self) EXCEPT
                    !.max_background_jobs = Set(self.max_background_jobs),
                    !.ratelimiter =
                        IF self.rate_bytes_per_sec > 0
                        THEN Set(self.rate_bytes_per_sec) ELSE @,
                    !.event_listeners = Append(@, "kv")])

(* faulty: the lock pair is built from the write config *)
DbConfig_build_cf_opts_LockFromWrite(self) ==
    << <<CF_DEFAULT, DefaultCfConfig_build_opt(self.defaultcf)>>,
       <<CF_LOCK, LockCfConfig_build_opt(self.writecf)>>,
       <<CF_WRITE, WriteCfConfig_build_opt(self.writecf)>>,
       <<CF_RAFT, RaftCfConfig_build_opt(self.raftcf)>> >>

DbConfig_build_cf_opts(self) ==
    << <<CF_DEFAULT, DefaultCfConfig_build_opt(self.defaultcf)>>,
       <<CF_LOCK, LockCfConfig_build_opt(self.lockcf)>>,
       <<CF_WRITE, WriteCfConfig_build_opt(self.writecf)>>,
       <<CF_RAFT, RaftCfConfig_build_opt(self.raftcf)>> >>

(* faulty: the listener carries the main engine's tag *)
RaftDbConfig_build_opt_KvListener(self, unusable) ==
    IF self.info_log_dir # EmptyPath /\ ~create_info_log(unusable, self.info_log_dir)
    THEN Panicked
    ELSE Built([build_db_opt(self) EXCEPT
                    !.allow_concurrent_memtable_write =
                        Set(self.allow_concurrent_memtable_write),
                    !.event_listeners = Append(@, "kv")])

RaftDbConfig_build_opt(self, unusable) ==
    IF self.info_log_dir # EmptyPath /\ ~create_info_log(unusable, self.info_log_dir)
    THEN Panicked
    ELSE Built([build_db_opt(self) EXCEPT
                    !.allow_concurrent_memtable_write =
                        Set(self.allow_concurrent_memtable_write),
                    !.event_listeners = Append(@, "raft")])

RaftDbConfig_build_cf_opts(self) ==
    << <<CF_DEFAULT, RaftDefaultCfConfig_build_opt(self.defaultcf)>> >>

-----------------------------------------------------------------------------
(* the documents of the model.  An optional value is << >> (absent) or     *)
(* <<value>> (present).                                                    *)

Opt(field, default) == IF field = << >> THEN default ELSE field[1]

(* the table with the one key, or without it *)
Entry(key, opt) == IF opt = << >> THEN EmptyTable ELSE key :> opt[1]
(* the section holding a table, left out when the table is empty *)
Section(key, table) == IF DOMAIN table = {} THEN EmptyTable ELSE key :> table

AddrGood == <<"pd1", "2379">>
AddrGood2 == <<"pd2", "443">>
AddrNoPort == <<"pd1">>
AddrBadPort == <<"pd1", "x">>

(* documents that set the directories and the endpoints *)
PathDoc(o) ==
    Section("storage", Entry("data_dir", o.data_dir))
    @@ Section("raftstore", Entry("raftdb_path", o.raftdb_path))
    @@ Section("rocksdb", Entry("backup_dir", o.backup_dir))
    @@ Section("pd", Entry("endpoints", o.endpoints))

Docs ==
    { PathDoc(o) : o \in
        [data_dir : {<< >>, << <<"/", "data">> >>, << <<"data">> >>},
         raftdb_path : {<< >>, << <<"/", "lnk">> >>, << <<"/", "r">> >>},
         backup_dir : {<< >>, << <<"bk">> >>},
         endpoints : {<< >>, << <<AddrGood>> >>, << <<AddrNoPort>> >>,
                      << <<AddrGood, AddrGood2>> >>,
                      << <<AddrGood, AddrBadPort, AddrNoPort>> >>}] }

(* documents that set fields of one column-family table *)
SizeText(count, unit) == [n |-> count, unit |-> unit]
BloomTables ==
    { Entry("use_bloom_filter", u) @@ Entry("whole_key_filtering", w)
      @@ Entry("bloom_filter_bits_per_key", b.bits)
      @@ Entry("block_based_bloom_filter", b.block_based) :
        u \in {<< >>, <<TRUE>>, <<FALSE>>},
        w \in {<< >>, <<TRUE>>, <<FALSE>>},
        b \in {[bits |-> << >>, block_based |-> << >>],
               [bits |-> <<7>>, block_based |-> <<TRUE>>]} }
CacheTables ==
    { Entry("block_cache_size", c) :
        c \in {<<SizeText(12, "MB")>>, <<SizeText(2, "GB")>>} }
CfTables == (BloomTables \cup CacheTables) \ {EmptyTable}
CfDocs ==
    { "rocksdb" :> (name :> table) :
        name \in {"defaultcf", "writecf", "lockcf", "raftcf"}, table \in CfTables }
    \cup { "raftdb" :> ("defaultcf" :> table) : table \in CfTables }

(* documents that set fields of one engine's table; rate_bytes_per_sec and *)
(* max_background_jobs name no field of the consensus-log engine, and      *)
(* allow_concurrent_memtable_write none of the main engine                 *)
DirTables ==
    { Entry("wal_dir", wal) @@ Entry("info_log_dir", log)
      @@ Entry("enable_statistics", st.enable)
      @@ Entry("stats_dump_period", st.period) :
        wal \in {<< >>, << <<"/", "wal">> >>},
        log \in {<< >>, << <<"/", "log">> >>, << <<"/", "bk">> >>},
        st \in {[enable |-> << >>, period |-> << >>],
                [enable |-> <<FALSE>>, period |-> << >>],
                [enable |-> <<FALSE>>, period |-> << <<SizeText(1, "m"), SizeText(30, "s")>> >>],
                [enable |-> <<TRUE>>, period |-> << <<SizeText(1, "m"), SizeText(30, "s")>> >>]} }
KnobTables ==
    { Entry("rate_bytes_per_sec", rate) @@ Entry("max_background_jobs", jobs)
      @@ Entry("allow_concurrent_memtable_write", conc) :
        rate \in {<< >>, <<SizeText(0, "KB")>>, <<SizeText(1, "MB")>>},
        jobs \in {<< >>, <<3>>},
        conc \in {<< >>, <<TRUE>>} }
EngineTables == (DirTables \cup KnobTables) \ {EmptyTable}
EngineDocs ==
    { engine :> table : engine \in {"rocksdb", "raftdb"}, table \in EngineTables }

BuildPathDocs ==
    { PathDoc(o) : o \in
        [data_dir : {<< >>, << <<"/", "data">> >>},
         raftdb_path : {<< >>, << <<"/", "lnk">> >>},
         backup_dir : {<< >>, << <<"bk">> >>},
         endpoints : {<< >>, << <<AddrGood>> >>, << <<AddrNoPort>> >>}] }

(* CUSTOME_TIKV_CONFIG: the document that sets every field, as its text    *)
(* has it, for the fields of the model                                     *)
CustomCfTable ==
    [block_size |-> SizeText(12, "KB"),
     block_cache_size |-> SizeText(12, "GB"),
     cache_index_and_filter_blocks |-> FALSE,
     use_bloom_filter |-> FALSE,
     whole_key_filtering |-> TRUE,
     bloom_filter_bits_per_key |-> 123,
     block_based_bloom_filter |-> TRUE,
     compression_per_level |-> <<"no", "no", "zstd", "zstd", "no", "zstd", "lz4">>,
     write_buffer_size |-> SizeText(1, "MB"),
     max_write_buffer_number |-> 12,
     min_write_buffer_number_to_merge |-> 12,
     max_bytes_for_level_base |-> SizeText(12, "KB"),
     target_file_size_base |-> SizeText(123, "KB"),
     level0_file_num_compaction_trigger |-> 123,
     level0_slowdown_writes_trigger |-> 123,
     level0_stop_writes_trigger |-> 123,
     max_compaction_bytes |-> SizeText(1, "GB"),
     compaction_pri |-> 3]

CustomDoc ==
    [log_level |-> "info",
     log_file |-> "foo",
     server |-> [addr |-> <<"example.com", "443">>],
     storage |-> [data_dir |-> <<"/", "var">>],
     pd |-> [endpoints |-> << <<"example.com", "443">> >>],
     metric |-> [interval |-> <<SizeText(12, "s")>>,
                 address |-> "example.com:443",
                 job |-> "tikv_1"],
     raftstore |-> [raftdb_path |-> <<"/", "var">>],
     rocksdb |->
        [wal_recovery_mode |-> 1,
         wal_dir |-> <<"/", "var">>,
         wal_ttl_seconds |-> 1,
         wal_size_limit |-> SizeText(1, "KB"),
         max_total_wal_size |-> SizeText(1, "GB"),
         max_background_jobs |-> 12,
         max_manifest_file_size |-> SizeText(12, "MB"),
         create_if_missing |-> FALSE,
         max_open_files |-> 12345,
         enable_statistics |-> FALSE,
         stats_dump_period |-> <<SizeText(12, "m")>>,
         compaction_readahead_size |-> SizeText(1, "KB"),
         info_log_max_size |-> SizeText(1, "KB"),
         info_log_roll_time |-> <<SizeText(12, "s")>>,
         info_log_dir |-> <<"/", "var">>,
         rate_bytes_per_sec |-> SizeText(1, "KB"),
         max_sub_compactions |-> 12,
         writable_file_max_buffer_size |-> SizeText(12, "MB"),
         use_direct_io_for_flush_and_compaction |-> TRUE,
         enable_pipelined_write |-> FALSE,
         backup_dir |-> <<"/", "var">>,
         defaultcf |-> CustomCfTable,
         writecf |-> CustomCfTable,
         lockcf |-> CustomCfTable,
         raftcf |-> CustomCfTable],
     raftdb |->
        [wal_recovery_mode |-> 3,
         wal_dir |-> <<"/", "var">>,
         wal_ttl_seconds |-> 1,
         wal_size_limit |-> SizeText(12, "KB"),
         max_total_wal_size |-> SizeText(1, "GB"),
         max_manifest_file_size |-> SizeText(12, "MB"),
         create_if_missing |-> FALSE,
         max_open_files |-> 12345,
         enable_statistics |-> FALSE,
         stats_dump_period |-> <<SizeText(12, "m")>>,
         compaction_readahead_size |-> SizeText(1, "KB"),
         info_log_max_size |-> SizeText(1, "KB"),
         info_log_roll_time |-> <<SizeText(1, "s")>>,
         info_log_dir |-> <<"/", "var">>,
         max_sub_compactions |-> 12,
         writable_file_max_buffer_size |-> SizeText(12, "MB"),
         use_direct_io_for_flush_and_compaction |-> TRUE,
         enable_pipelined_write |-> FALSE,
         allow_concurrent_memtable_write |-> TRUE,
         defaultcf |-> CustomCfTable]]

(* the tree test_deserialize_custom_config expects from that document *)
CustomCf ==
    [block_size |-> ReadableSize_kb(12),
     block_cache_size |-> ReadableSize_gb(12),
     cache_index_and_filter_blocks |-> FALSE,
     use_bloom_filter |-> FALSE,
     whole_key_filtering |-> TRUE,
     bloom_filter_bits_per_key |-> 123,
     block_based_bloom_filter |-> TRUE,
     compression_per_level |-> <<"no", "no", "zstd", "zstd", "no", "zstd", "lz4">>,
     write_buffer_size |-> ReadableSize_mb(1),
     max_write_buffer_number |-> 12,
     min_write_buffer_number_to_merge |-> 12,
     max_bytes_for_level_base |-> ReadableSize_kb(12),
     target_file_size_base |-> ReadableSize_kb(123),
     level0_file_num_compaction_trigger |-> 123,
     level0_slowdown_writes_trigger |-> 123,
     level0_stop_writes_trigger |-> 123,
     max_compaction_bytes |-> ReadableSize_gb(1),
     compaction_pri |-> "MinOverlappingRatio"]

CustomTree ==
    [log_level |-> "Info",
     log_file |-> "foo",
     server |-> [addr |-> <<"example.com", "443">>],
     storage |-> [data_dir |-> <<"/", "var">>],
     pd |-> [endpoints |-> << <<"example.com", "443">> >>],
     metric |-> [interval |-> 12, address |-> "example.com:443", job |-> "tikv_1"],
     raft_store |-> [raftdb_path |-> <<"/", "var">>],
     rocksdb |->
        [wal_recovery_mode |-> "AbsoluteConsistency",
         wal_dir |-> <<"/", "var">>,
         wal_ttl_seconds |-> 1,
         wal_size_limit |-> ReadableSize_kb(1),
         max_total_wal_size |-> ReadableSize_gb(1),
         max_background_jobs |-> 12,
         max_manifest_file_size |-> ReadableSize_mb(12),
         create_if_missing |-> FALSE,
         max_open_files |-> 12345,
         enable_statistics |-> FALSE,
         stats_dump_period |-> 12 * 60,
         compaction_readahead_size |-> ReadableSize_kb(1),
         info_log_max_size |-> ReadableSize_kb(1),
         info_log_roll_time |-> 12,
         info_log_dir |-> <<"/", "var">>,
         rate_bytes_per_sec |-> ReadableSize_kb(1),
         max_sub_compactions |-> 12,
         writable_file_max_buffer_size |-> ReadableSize_mb(12),
         use_direct_io_for_flush_and_compaction |-> TRUE,
         enable_pipelined_write |-> FALSE,
         backup_dir |-> <<"/", "var">>,
         defaultcf |-> CustomCf,
         writecf |-> CustomCf,
         lockcf |-> CustomCf,
         raftcf |-> CustomCf],
     raftdb |->
        [wal_recovery_mode |-> "SkipAnyCorruptedRecords",
         wal_dir |-> <<"/", "var">>,
         wal_ttl_seconds |-> 1,
         wal_size_limit |-> ReadableSize_kb(12),
         max_total_wal_size |-> ReadableSize_gb(1),
         max_manifest_file_size |-> ReadableSize_mb(12),
         create_if_missing |-> FALSE,
         max_open_files |-> 12345,
         enable_statistics |-> FALSE,
         stats_dump_period |-> 12 * 60,
         compaction_readahead_size |-> ReadableSize_kb(1),
         info_log_max_size |-> ReadableSize_kb(1),
         info_log_roll_time |-> 1,
         info_log_dir |-> <<"/", "var">>,
         max_sub_compactions |-> 12,
         writable_file_max_buffer_size |-> ReadableSize_mb(12),
         use_direct_io_for_flush_and_compaction |-> TRUE,
         enable_pipelined_write |-> FALSE,
         allow_concurrent_memtable_write |-> TRUE,
         defaultcf |-> CustomCf]]

(* documents that set level-0 thresholds of one column family: all three   *)
(* in decreasing order, or the stop threshold alone below the default      *)
(* trigger; with or without an endpoint, so that validation can succeed    *)
Level0Tables ==
    { Entry("level0_file_num_compaction_trigger", z.trigger)
      @@ Entry("level0_slowdown_writes_trigger", z.slowdown)
      @@ Entry("level0_stop_writes_trigger", z.stop) :
        z \in {[trigger |-> <<9>>, slowdown |-> <<5>>, stop |-> <<2>>],
               [trigger |-> << >>, slowdown |-> << >>, stop |-> <<0>>]} }
Level0Docs ==
    { (slot[1] :> (slot[2] :> table)) @@ Section("pd", Entry("endpoints", e)) :
        slot \in {<<"rocksdb", "defaultcf">>, <<"rocksdb", "writecf">>,
                  <<"rocksdb", "lockcf">>, <<"rocksdb", "raftcf">>,
                  <<"raftdb", "defaultcf">>},
        table \in Level0Tables,
        e \in {<< >>, << <<AddrGood>> >>} }

BuildDocs == CfDocs \cup EngineDocs \cup BuildPathDocs \cup Level0Docs

(* documents for the round trip and the merge: memory-derived and         *)
(* overridden cache sizes, keys that name no field, and every field set    *)
SerdeDocs ==
    { d \in CfDocs : \E e \in DOMAIN d, name \in {"defaultcf", "writecf", "lockcf", "raftcf"} :
                        name \in DOMAIN d[e] /\ d[e][name] \in CacheTables }
    \cup { d \in EngineDocs : \E e \in DOMAIN d : d[e] \in KnobTables }
    \cup {CustomDoc}

(* the hosts of the model *)
KvDir == <<"/", "data", "db">>
RaftDirs == {<<"/", "data", "raft">>, <<"/", "r">>}
UnusableChoices ==
    { {}, {<<"/", "data", "raft">>}, {<<"/", "data", "db">>},
      {<<"/", "data", "backup">>}, {<<"/", "bk">>} }
DbsChoices == { {}, {KvDir}, RaftDirs, {KvDir} \cup RaftDirs }

Hosts(mems, flags, unusables, dbss) ==
    [total_kb : mems, storage_ok : flags, server_ok : flags, raftstore_ok : flags,
     unusable : unusables, dbs : dbss]

-----------------------------------------------------------------------------
(* The state machine: process start, the one construction of the tree (by  *)
(* default() or from a document), then validation                          *)

VARIABLES
    host,           \* the host: memory, file system, collaborators' verdicts
    cfg,            \* the configuration tree, NoTree before construction
    mem_queries,    \* host-memory queries issued so far
    constructed,    \* the tree has been constructed
    validations,    \* validate calls on the current tree
    pre,            \* the tree as the last validate call found it
    res,            \* err and steps of the last validate call
    doc,            \* the document the tree was read from, NoDoc for default()
    advised,        \* the (is_raft_db, cf) pairs the advisor was asked about
    opts,           \* the last builder call and the option object it returned
    aborted,        \* the process has aborted
    load            \* the tree read back from the serialized tree

vars == <<host, cfg, mem_queries, constructed, validations, pre, res,
          doc, advised, opts, aborted, load>>

NoTree == [none |-> TRUE]
NoRes == [err |-> Ok, steps |-> << >>]
NoDoc == [none |-> TRUE]
NoCall == [call |-> "", cf |-> "", o |-> NoOptions]

InitWith(hosts) ==
    /\ host \in hosts
    /\ cfg = NoTree
    /\ mem_queries = 0
    /\ constructed = FALSE
    /\ validations = 0
    /\ pre = NoTree
    /\ res = NoRes
    /\ doc = NoDoc
    /\ advised = {}
    /\ opts = NoCall
    /\ aborted = FALSE
    /\ load = NoTree

Init ==
    InitWith(Hosts({16777216}, BOOLEAN, UnusableChoices, DbsChoices))

(* every host memory size, on a host where nothing else fails *)
InitMem == InitWith(Hosts(HostMemKb, {TRUE}, {{}}, {{}}))

(* two memory sizes, on hosts where the main engine's data exists already *)
(* and where a directory may be unusable                                   *)
InitBuild ==
    InitWith(Hosts({16777216, 134217728}, {TRUE}, {{}, {<<"/", "bk">>}}, {{KvDir}}))

(* every host memory size and every outcome of the collaborators, on hosts *)
(* where the directories the default tree resolves to ("/raft" and "/db",  *)
(* under the working directory) may be unusable or hold engine data        *)
InitAny ==
    InitWith(Hosts(HostMemKb, BOOLEAN,
                   UnusableChoices \cup {{<<"/", "raft">>}, {<<"/", "db">>}},
                   DbsChoices \cup {{<<"/", "db">>}, {<<"/", "raft">>},
                                    {<<"/", "db">>, <<"/", "raft">>}}))

(* TiKvConfig::default() *)
Default ==
    /\ ~constructed
    /\ LET d == TiKvConfig_default(host.total_kb)
       IN  /\ cfg' = d.v
           /\ mem_queries' = mem_queries + d.q
           /\ advised' = advised \cup d.a
    /\ constructed' = TRUE
    /\ UNCHANGED <<host, validations, pre, res, doc, opts, aborted, load>>

(* toml::from_str(document) *)
from_str(document) ==
    /\ LET d == TiKvConfig_deserialize(document, host.total_kb)
       IN  /\ cfg' = d.v
           /\ mem_queries' = mem_queries + d.q
           /\ advised' = advised \cup d.a
    /\ doc' = document
    /\ constructed' = TRUE
    /\ UNCHANGED <<host, validations, pre, res, opts, aborted, load>>

(* the tree is read from a document that sets directories and endpoints *)
Deserialize ==
    /\ ~constructed
    /\ \E document \in Docs : from_str(document)

(* the tree is read from a document that sets column-family or engine knobs *)
DeserializeBuild ==
    /\ ~constructed
    /\ \E document \in BuildDocs : from_str(document)

(* the tree is read from a document that sets sizes and knobs *)
DeserializeSerde ==
    /\ ~constructed
    /\ \E document \in SerdeDocs : from_str(document)

(* cfg.validate() *)
Validate ==
    /\ constructed
    /\ ~aborted
    /\ validations < MaxValidations
    /\ LET r == TiKvConfig_validate(cfg, host)
       IN  /\ cfg' = r.cfg
           /\ res' = [err |-> r.err, steps |-> r.steps]
    /\ pre' = cfg
    /\ validations' = validations + 1
    /\ UNCHANGED <<host, mem_queries, constructed, doc, advised, opts, aborted, load>>

(* build_opt of one of the five column-family configs *)
BuildCfOpt ==
    /\ constructed
    /\ ~aborted
    /\ \E which \in {"rocksdb.defaultcf", "rocksdb.writecf", "rocksdb.lockcf",
                      "rocksdb.raftcf", "raftdb.defaultcf"} :
         opts' = [call |-> "build_opt", cf |-> which, o |->
                    CASE which = "rocksdb.defaultcf" ->
                             DefaultCfConfig_build_opt(cfg.rocksdb.defaultcf)
                      [] which = "rocksdb.writecf" ->
                             WriteCfConfig_build_opt(cfg.rocksdb.writecf)
                      [] which = "rocksdb.lockcf" ->
                             LockCfConfig_build_opt(cfg.rocksdb.lockcf)
                      [] which = "rocksdb.raftcf" ->
                             RaftCfConfig_build_opt(cfg.rocksdb.raftcf)
                      [] which = "raftdb.defaultcf" ->
                             RaftDefaultCfConfig_build_opt(cfg.raftdb.defaultcf)]
    /\ UNCHANGED <<host, cfg, mem_queries, constructed, validations, pre, res,
                   doc, advised, aborted, load>>

(* cfg.rocksdb.build_opt() *)
BuildDbOpt ==
    /\ constructed
    /\ ~aborted
    /\ LET r == DbConfig_build_opt(cfg.rocksdb, host.unusable)
       IN  /\ opts' = [call |-> "DbConfig::build_opt", cf |-> "", o |-> r.o]
           /\ aborted' = r.aborted
    /\ UNCHANGED <<host, cfg, mem_queries, constructed, validations, pre, res,
                   doc, advised, load>>

(* cfg.raftdb.build_opt() *)
BuildRaftDbOpt ==
    /\ constructed
    /\ ~aborted
    /\ LET r == RaftDbConfig_build_opt(cfg.raftdb, host.unusable)
       IN  /\ opts' = [call |-> "RaftDbConfig::build_opt", cf |-> "", o |-> r.o]
           /\ aborted' = r.aborted
    /\ UNCHANGED <<host, cfg, mem_queries, constructed, validations, pre, res,
                   doc, advised, load>>

(* cfg.rocksdb.build_cf_opts() *)
BuildCfOpts ==
    /\ constructed
    /\ ~aborted
    /\ opts' = [call |-> "DbConfig::build_cf_opts", cf |-> "",
                o |-> DbConfig_build_cf_opts(cfg.rocksdb)]
    /\ UNCHANGED <<host, cfg, mem_queries, constructed, validations, pre, res,
                   doc, advised, aborted, load>>

(* cfg.raftdb.build_cf_opts() *)
BuildRaftCfOpts ==
    /\ constructed
    /\ ~aborted
    /\ opts' = [call |-> "RaftDbConfig::build_cf_opts", cf |-> "",
                o |-> RaftDbConfig_build_cf_opts(cfg.raftdb)]
    /\ UNCHANGED <<host, cfg, mem_queries, constructed, validations, pre, res,
                   doc, advised, aborted, load>>

(* toml::from_str(&toml::to_string_pretty(&cfg)), once *)
RoundTrip ==
    /\ constructed
    /\ load = NoTree
    /\ LET d == TiKvConfig_deserialize(TiKvConfig_serialize(cfg), host.total_kb)
       IN  /\ load' = d.v
           /\ mem_queries' = mem_queries + d.q
           /\ advised' = advised \cup d.a
    /\ UNCHANGED <<host, cfg, constructed, validations, pre, res, doc, opts, aborted>>

Next == Default \/ Deserialize \/ Validate

NextBuild ==
    \/ Default
    \/ DeserializeBuild
    \/ Validate
    \/ BuildCfOpt
    \/ BuildDbOpt
    \/ BuildRaftDbOpt
    \/ BuildCfOpts
    \/ BuildRaftCfOpts

NextSerde == Default \/ DeserializeSerde \/ RoundTrip

(* the compiled-in tree, validated as it is *)
NextDefault == Default \/ Validate

Spec == Init /\ [][Next]_vars
SpecMem == InitMem /\ [][Next]_vars
SpecBuild == InitBuild /\ [][NextBuild]_vars
SpecSerde == InitMem /\ [][NextSerde]_vars
SpecDefault == InitAny /\ [][NextDefault]_vars

-----------------------------------------------------------------------------
(* Properties of the validation pass *)

Validated == validations > 0
Failed == Validated /\ res.err # Ok
Succeeded == Validated /\ res.err = Ok

ValidateSteps ==
    <<"storage", "backup_dir", "raftdb_path", "kv_db_path", "collision",
      "exist", "rocksdb", "server", "raft_store", "pd">>

(* the paths a validate call on tree t works with, before canonicalization *)
RaftRaw(t) ==
    IF t.raft_store.raftdb_path = EmptyPath
    THEN PathJoin(t.storage.data_dir, "raft")
    ELSE t.raft_store.raftdb_path
BackupRaw(t) ==
    IF t.rocksdb.backup_dir = EmptyPath /\ t.storage.data_dir # DEFAULT_DATA_DIR
    THEN PathJoin(t.storage.data_dir, "backup")
    ELSE t.rocksdb.backup_dir
KvRaw(t) == PathJoin(t.storage.data_dir, DEFAULT_ROCKSDB_SUB_DIR)
Canon(h, p) == canonicalize_path(h.unusable, p)

(* the step, run on tree t and host h, has something to reject *)
StepFails(step, t, h) ==
    CASE step = "storage" -> ~h.storage_ok
      [] step = "backup_dir" -> FALSE
      [] step = "raftdb_path" -> Canon(h, RaftRaw(t)) = NoPath
      [] step = "kv_db_path" -> Canon(h, KvRaw(t)) = NoPath
      [] step = "collision" -> Canon(h, KvRaw(t)) = Canon(h, RaftRaw(t))
      [] step = "exist" -> db_exist(h.dbs, Canon(h, KvRaw(t)))
                               # db_exist(h.dbs, Canon(h, RaftRaw(t)))
      [] step = "rocksdb" -> BackupRaw(t) # EmptyPath /\ Canon(h, BackupRaw(t)) = NoPath
      [] step = "server" -> ~h.server_ok
      [] step = "raft_store" -> ~h.raftstore_ok
      [] step = "pd" -> \/ t.pd.endpoints = << >>
                        \/ \E i \in 1..Len(t.pd.endpoints) : ~check_addr(t.pd.endpoints[i])

(* the step an error comes from *)
StepOfError(err) ==
    CASE err.kind = "storage" -> {"storage"}
      [] err.kind = "canonicalize" -> {"raftdb_path", "kv_db_path", "rocksdb"}
      [] err.kind = "same path" -> {"collision"}
      [] err.kind \in {"kv exist, raft not", "raft exist, kv not"} -> {"exist"}
      [] err.kind = "server" -> {"server"}
      [] err.kind = "raftstore" -> {"raft_store"}
      [] err.kind \in {"pd.endpoints", "addr"} -> {"pd"}
      [] OTHER -> {}

(* C1: validate runs its steps in the fixed order storage, backup-dir      *)
(* derivation, consensus-log path derivation, main-engine path and         *)
(* collision check, existence check, main engine validation, server,       *)
(* raftstore and coordination-endpoint validation; the steps it ran are a  *)
(* prefix of that order; on success it ran them all and none had anything  *)
(* to reject; on failure the error is that of the last step it ran, that   *)
(* step is the earliest one with something to reject, and no later step    *)
(* ran.                                                                    *)
C1_FirstFailureInOrder ==
    Validated =>
        LET n == Len(res.steps)
        IN  /\ n >= 1 /\ n <= Len(ValidateSteps)
            /\ res.steps = SubSeq(ValidateSteps, 1, n)
            /\ \A j \in 1..(n - 1) : ~StepFails(ValidateSteps[j], pre, host)
            /\ res.err = Ok =>
                   /\ n = Len(ValidateSteps)
                   /\ ~StepFails(ValidateSteps[n], pre, host)
            /\ res.err # Ok =>
                   /\ StepFails(ValidateSteps[n], pre, host)
                   /\ ValidateSteps[n] \in StepOfError(res.err)

(* several steps have something to reject (server and the endpoint list)   *)
(* and the error is the earlier one's                                      *)
C1_Witness ==
    /\ Validated
    /\ StepFails("server", pre, host)
    /\ StepFails("raft_store", pre, host)
    /\ StepFails("pd", pre, host)
    /\ res.err.kind = "server"

(* C2, as stated: whenever validate returns an error the tree equals the   *)
(* tree before the call.                                                   *)
C2_NoPartialApplication == Failed => cfg = pre

(* C2, amended: whenever validate returns an error the tree equals the     *)
(* tree before the call except for rocksdb.backup_dir and                  *)
(* raft_store.raftdb_path, which hold what the steps before the failing    *)
(* one wrote: nothing when storage validation fails; the derived, not yet  *)
(* canonicalized backup directory from then on; the canonicalized          *)
(* consensus-log path once its derivation has succeeded; the canonicalized *)
(* backup directory once the main engine's validate has succeeded.         *)
C2_FailureKeepsEarlierWrites ==
    Failed =>
        LET n == Len(res.steps)
        IN  /\ [cfg EXCEPT !.rocksdb.backup_dir = pre.rocksdb.backup_dir,
                           !.raft_store.raftdb_path = pre.raft_store.raftdb_path] = pre
            /\ n = 1 => cfg = pre
            /\ n \in 2..7 => cfg.rocksdb.backup_dir = BackupRaw(pre)
            /\ n > 7 => cfg.rocksdb.backup_dir =
                            IF BackupRaw(pre) = EmptyPath THEN EmptyPath
                            ELSE Canon(host, BackupRaw(pre))
            /\ n <= 3 => cfg.raft_store.raftdb_path = pre.raft_store.raftdb_path
            /\ n > 3 => cfg.raft_store.raftdb_path = Canon(host, RaftRaw(pre))

(* a failed call that left both derived fields written *)
C2_Witness ==
    /\ Failed
    /\ res.err.kind = "pd.endpoints"
    /\ cfg.rocksdb.backup_dir # pre.rocksdb.backup_dir
    /\ cfg.raft_store.raftdb_path # pre.raft_store.raftdb_path

(* C3: validate returns an error whenever the canonicalized consensus-log  *)
(* path (the user-set raftdb_path, or <data-dir>/raft when unset) equals   *)
(* the canonicalized main-engine path <data-dir>/db; after every           *)
(* successful validate the stored raftdb_path differs from the main        *)
(* engine's data path.                                                     *)
C3_CollisionRejected ==
    Validated =>
        /\ (/\ Canon(host, RaftRaw(pre)) # NoPath
            /\ Canon(host, RaftRaw(pre)) = Canon(host, KvRaw(pre))) => res.err # Ok
        /\ res.err = Ok => cfg.raft_store.raftdb_path # Canon(host, KvRaw(cfg))

(* the user's raftdb_path is another name of <data-dir>/db and validate    *)
(* reports the collision                                                   *)
C3_Witness ==
    /\ Failed
    /\ res.err.kind = "same path"
    /\ pre.raft_store.raftdb_path # EmptyPath
    /\ pre.raft_store.raftdb_path # KvRaw(pre)
    /\ Canon(host, pre.raft_store.raftdb_path) = Canon(host, KvRaw(pre))

(* C4: with both paths canonicalizable, validate returns an error when     *)
(* main-engine data exists and consensus-log data does not, and when       *)
(* consensus-log data exists and main-engine data does not; validate       *)
(* succeeds only when both exist or both are absent.                       *)
C4_ExistenceConsistent ==
    Validated =>
        LET kv == Canon(host, KvRaw(pre))
            raft == Canon(host, RaftRaw(pre))
        IN  /\ (/\ kv # NoPath /\ raft # NoPath
                /\ db_exist(host.dbs, kv) /\ ~db_exist(host.dbs, raft)) => res.err # Ok
            /\ (/\ kv # NoPath /\ raft # NoPath
                /\ ~db_exist(host.dbs, kv) /\ db_exist(host.dbs, raft)) => res.err # Ok
            /\ res.err = Ok =>
                   (db_exist(host.dbs, kv) <=> db_exist(host.dbs, raft))
            /\ res.err = Ok =>
                   (db_exist(host.dbs, Canon(host, KvRaw(cfg)))
                        <=> db_exist(host.dbs, cfg.raft_store.raftdb_path))

(* consensus-log data exists, main-engine data does not, and validate      *)
(* reports exactly that                                                    *)
C4_Witness ==
    /\ Failed
    /\ res.err.kind = "raft exist, kv not"
    /\ ~db_exist(host.dbs, Canon(host, KvRaw(pre)))
    /\ db_exist(host.dbs, Canon(host, RaftRaw(pre)))

(* the first malformed entry of an endpoint list, << >> when there is none *)
FirstMalformed(endpoints) ==
    LET bad == {i \in 1..Len(endpoints) : ~check_addr(endpoints[i])}
    IN  IF bad = {} THEN << >>
        ELSE endpoints[CHOOSE i \in bad : \A j \in bad : i <= j]

(* C5: PdConfig::validate succeeds if and only if the endpoint list is     *)
(* non-empty and every entry passes the address check; it returns an error *)
(* for an empty list and the address check's error for the first malformed *)
(* entry in list order; it never modifies the list; after a successful     *)
(* top-level validate the list is non-empty and every entry is valid.      *)
C5_EndpointsChecked ==
    constructed =>
        LET e == cfg.pd.endpoints
            r == PdConfig_validate(cfg.pd)
            allGood == \A i \in 1..Len(e) : check_addr(e[i])
        IN  /\ r.err = Ok <=> (e # << >> /\ allGood)
            /\ e = << >> => r.err = Err("pd.endpoints", << >>)
            /\ (e # << >> /\ ~allGood) => r.err = Err("addr", FirstMalformed(e))
            /\ r.cfg = cfg.pd
            /\ Validated => cfg.pd = pre.pd
            /\ (Validated /\ Len(res.steps) = Len(ValidateSteps)) => res.err = r.err
            /\ Succeeded => (e # << >> /\ allGood)

(* a list whose second and third entries are malformed: the error names    *)
(* the second                                                              *)
C5_Witness ==
    /\ Failed
    /\ Len(pre.pd.endpoints) = 3
    /\ check_addr(pre.pd.endpoints[1])
    /\ ~check_addr(pre.pd.endpoints[2])
    /\ ~check_addr(pre.pd.endpoints[3])
    /\ pre.pd.endpoints[2] # pre.pd.endpoints[3]
    /\ res.err = Err("addr", pre.pd.endpoints[2])

(* C6: in a validate call that passes storage validation, an empty         *)
(* backup_dir with a non-default data_dir becomes <data-dir>/backup, a     *)
(* non-empty user-supplied backup_dir is never replaced by the derived     *)
(* one, and an empty backup_dir with the default data_dir stays empty;     *)
(* after a successful validate backup_dir is empty or the canonicalized    *)
(* form of that path; when the earlier steps pass and that path cannot be  *)
(* canonicalized, the canonicalization failure is validate's error.        *)
C6_BackupDirDerived ==
    (Validated /\ Len(res.steps) >= 2) =>
        LET user == pre.rocksdb.backup_dir
            derived == PathJoin(pre.storage.data_dir, "backup")
            now == cfg.rocksdb.backup_dir
            canonRan == Len(res.steps) > 7 \/ res.err = Ok
        IN  /\ (user = EmptyPath /\ pre.storage.data_dir # DEFAULT_DATA_DIR) =>
                   now = IF canonRan THEN Canon(host, derived) ELSE derived
            /\ user # EmptyPath =>
                   now = IF canonRan THEN Canon(host, user) ELSE user
            /\ (user = EmptyPath /\ pre.storage.data_dir = DEFAULT_DATA_DIR) =>
                   now = EmptyPath
            /\ res.err = Ok =>
                   \/ now = EmptyPath
                   \/ now = Canon(host, BackupRaw(pre)) /\ now # NoPath
            /\ (/\ Len(res.steps) >= 7
                /\ BackupRaw(pre) # EmptyPath
                /\ Canon(host, BackupRaw(pre)) = NoPath) =>
                   res.err = Err("canonicalize", BackupRaw(pre))

(* a successful validate derived the backup directory from a relative data *)
(* directory and stored its canonical form                                 *)
C6_Witness ==
    /\ Succeeded
    /\ pre.rocksdb.backup_dir = EmptyPath
    /\ pre.storage.data_dir = <<"data">>
    /\ cfg.rocksdb.backup_dir = <<"/", "data", "backup">>

(* C7: in a validate call that passes storage validation, an empty         *)
(* raftdb_path is set to the canonicalized <data-dir>/raft and a non-empty *)
(* one to the canonicalization of the user-supplied path itself; a         *)
(* canonicalization failure is returned as validate's error and leaves the *)
(* field as it was; the collision and existence checks that follow use the *)
(* derived path.                                                           *)
C7_RaftdbPathDerived ==
    (Validated /\ Len(res.steps) >= 3) =>
        LET user == pre.raft_store.raftdb_path
            want == IF user = EmptyPath
                    THEN canonicalize_sub_path(host.unusable, pre.storage.data_dir, "raft")
                    ELSE canonicalize_path(host.unusable, user)
            kv == Canon(host, KvRaw(pre))
            now == cfg.raft_store.raftdb_path
        IN  /\ want = NoPath =>
                   /\ res.err.kind = "canonicalize"
                   /\ Len(res.steps) = 3
                   /\ now = user
            /\ want # NoPath => now = want
            /\ res.err.kind = "same path" <=>
                   (want # NoPath /\ kv # NoPath /\ now = kv)
            /\ res.err.kind = "kv exist, raft not" <=>
                   (/\ want # NoPath /\ kv # NoPath /\ now # kv
                    /\ db_exist(host.dbs, kv) /\ ~db_exist(host.dbs, now))
            /\ res.err.kind = "raft exist, kv not" <=>
                   (/\ want # NoPath /\ kv # NoPath /\ now # kv
                    /\ ~db_exist(host.dbs, kv) /\ db_exist(host.dbs, now))

(* a user-supplied path was canonicalized as it is, to something other     *)
(* than itself and not under the data directory, and the existence check   *)
(* used it                                                                 *)
C7_Witness ==
    /\ Validated
    /\ pre.raft_store.raftdb_path = LinkSrc
    /\ pre.storage.data_dir = EmptyPath
    /\ cfg.raft_store.raftdb_path = LinkDst
    /\ res.err.kind = "raft exist, kv not"

(* C8: validate writes only rocksdb.backup_dir and                         *)
(* raft_store.raftdb_path: every other field of the tree is the same after *)
(* the call as before it, on success and on failure alike (the delegated   *)
(* storage, server and raftstore validators are read-only here).           *)
C8_OnlyDerivedPathsWritten ==
    Validated =>
        /\ cfg.log_level = pre.log_level
        /\ cfg.log_file = pre.log_file
        /\ cfg.server = pre.server
        /\ cfg.storage = pre.storage
        /\ cfg.pd = pre.pd
        /\ cfg.metric = pre.metric
        /\ cfg.raftdb = pre.raftdb
        /\ [cfg.rocksdb EXCEPT !.backup_dir = pre.rocksdb.backup_dir] = pre.rocksdb
        /\ [cfg.raft_store EXCEPT !.raftdb_path = pre.raft_store.raftdb_path]
               = pre.raft_store

(* a successful validate that wrote both derived fields *)
C8_Witness ==
    /\ Succeeded
    /\ cfg.rocksdb.backup_dir # pre.rocksdb.backup_dir
    /\ cfg.raft_store.raftdb_path # pre.raft_store.raftdb_path
    /\ cfg # pre

(* C9, as stated: constructing a tree (by default() or by deserialization) *)
(* issues at most one host-memory query in total.                          *)
C9_MemoryQueriedOnce == mem_queries <= 1

(* C10: for the consensus-log engine's default CF the advisor returns      *)
(* exactly 256 (MB) when 2% of the host memory is below 256MB, exactly     *)
(* 2048 when 2% exceeds 2GB, and otherwise the whole megabytes of 2% of    *)
(* the host memory; the result always lies in [256, 2048]; the default     *)
(* block cache size of that CF is the result, in MB.                       *)
C10_RaftCacheClamped ==
    constructed =>
        LET t == host.total_kb
            m == memory_mb_for_cf(t, TRUE, CF_DEFAULT)
        IN  /\ t * 2 < 256 * 1024 * 100 => m = 256
            /\ t * 2 > 2 * 1024 * 1024 * 100 => m = 2048
            /\ (t * 2 >= 256 * 1024 * 100 /\ t * 2 <= 2 * 1024 * 1024 * 100) =>
                   m = (t * 2) \div (100 * 1024)
            /\ m >= 256 /\ m <= 2048
            /\ cfg.raftdb.defaultcf.block_cache_size = m * 1024

(* a host whose 2% lies above the ceiling, and one tree built on it *)
C10_Witness ==
    /\ constructed
    /\ host.total_kb * 2 > 2 * 1024 * 1024 * 100
    /\ host.total_kb * 2 <= 2 * 1024 * 1024 * 100 + 1024 * 100
    /\ cfg.raftdb.defaultcf.block_cache_size = 2048 * 1024

-----------------------------------------------------------------------------
(* Properties of the main engine's memory-derived defaults *)

(* C11: for the main engine the advisor returns 25% of the host memory in  *)
(* whole MB for the default CF and 15% for the write CF, with no clamp,    *)
(* and 2% clamped to [256MB, 1GB] for the lock CF; with 16GiB of host      *)
(* memory the default CF's default block cache size is 4096MB and the lock *)
(* CF's is 327MB (2% of 16GiB in whole MB); when 2% of the host memory is  *)
(* below 256MB the lock CF's is exactly 256MB.                             *)
C11_MainEngineCacheSizes ==
    constructed =>
        LET t == host.total_kb
            d == memory_mb_for_cf(t, FALSE, CF_DEFAULT)
            w == memory_mb_for_cf(t, FALSE, CF_WRITE)
            l == memory_mb_for_cf(t, FALSE, CF_LOCK)
        IN  /\ d = (t \div 4) \div 1024
            /\ w = ((t * 15) \div 100) \div 1024
            /\ t * 2 < 256 * 1024 * 100 => l = 256
            /\ t * 2 > 1024 * 1024 * 100 => l = 1024
            /\ (t * 2 >= 256 * 1024 * 100 /\ t * 2 <= 1024 * 1024 * 100) =>
                   l = (t * 2) \div (100 * 1024)
            /\ t = 16 * 1024 * 1024 => (d = 4096 /\ l = 327)
            /\ cfg.rocksdb.defaultcf.block_cache_size = d * 1024
            /\ cfg.rocksdb.writecf.block_cache_size = w * 1024
            /\ cfg.rocksdb.lockcf.block_cache_size = l * 1024

(* a tree built on a host with 128GiB: the default CF's cache is 32GiB,    *)
(* unclamped, and the lock CF's is held at 1GB                             *)
C11_Witness ==
    /\ constructed
    /\ host.total_kb = 128 * 1024 * 1024
    /\ cfg.rocksdb.defaultcf.block_cache_size = 32768 * 1024
    /\ cfg.rocksdb.lockcf.block_cache_size = 1024 * 1024


-----------------------------------------------------------------------------
(* Properties of documents that override a block cache size *)

(* the five column-family configs, and the advisor's arguments for each *)
CfSlots ==
    { [engine |-> "rocksdb", field |-> "defaultcf", is_raft_db |-> FALSE, cf |-> CF_DEFAULT],
      [engine |-> "rocksdb", field |-> "writecf", is_raft_db |-> FALSE, cf |-> CF_WRITE],
      [engine |-> "rocksdb", field |-> "lockcf", is_raft_db |-> FALSE, cf |-> CF_LOCK],
      [engine |-> "rocksdb", field |-> "raftcf", is_raft_db |-> FALSE, cf |-> CF_RAFT],
      [engine |-> "raftdb", field |-> "defaultcf", is_raft_db |-> TRUE, cf |-> CF_DEFAULT] }

(* the document sets the slot's block_cache_size *)
Overrides(document, slot) ==
    /\ document # NoDoc
    /\ Has(document, slot.engine)
    /\ Has(document[slot.engine], slot.field)
    /\ Has(document[slot.engine][slot.field], "block_cache_size")

(* the tree's value is the document's, whatever the host memory *)
OverrideValueKept ==
    \A slot \in CfSlots :
        Overrides(doc, slot) =>
            cfg[slot.engine][slot.field].block_cache_size =
                ReadableSize_deserialize(doc[slot.engine][slot.field].block_cache_size)

(* C12: when the document sets a column family's block_cache_size, the     *)
(* tree's value is the document's for every host memory size, and the      *)
(* advisor was not consulted for that column family                        *)
C12_OverrideBypassesAdvisor ==
    constructed =>
        /\ OverrideValueKept
        /\ \A slot \in CfSlots :
               Overrides(doc, slot) => <<slot.is_raft_db, slot.cf>> \notin advised

-----------------------------------------------------------------------------
(* Properties of the column-family builders.  The builders read the tree   *)
(* and validate writes directories only, so the column-family configs the  *)
(* last builder call read are the ones in cfg.                             *)

CfConfigOf(which) ==
    CASE which = "rocksdb.defaultcf" -> cfg.rocksdb.defaultcf
      [] which = "rocksdb.writecf" -> cfg.rocksdb.writecf
      [] which = "rocksdb.lockcf" -> cfg.rocksdb.lockcf
      [] which = "rocksdb.raftcf" -> cfg.rocksdb.raftcf
      [] which = "raftdb.defaultcf" -> cfg.raftdb.defaultcf

BuiltCf == opts.call = "build_opt"
TableOptions(cf_opts) == cf_opts.block_based_table_factory[1]

(* C13: a column-family build_opt with use_bloom_filter false applies      *)
(* neither the bloom filter nor the whole-key-filtering flag, whatever     *)
(* their configured values; with use_bloom_filter true it attaches the     *)
(* filter with the configured bits per key and block-based choice and      *)
(* applies the configured whole-key-filtering flag                         *)
C13_BloomFilterOnlyWhenEnabled ==
    BuiltCf =>
        LET c == CfConfigOf(opts.cf)
            t == TableOptions(opts.o)
        IN  /\ ~c.use_bloom_filter =>
                   /\ t.bloom_filter = NotSet
                   /\ t.whole_key_filtering = NotSet
            /\ c.use_bloom_filter =>
                   /\ t.bloom_filter = Set([bits_per_key |-> c.bloom_filter_bits_per_key,
                                            block_based |-> c.block_based_bloom_filter])
                   /\ t.whole_key_filtering = Set(c.whole_key_filtering)

C13_Witness ==
    /\ BuiltCf
    /\ opts.cf = "rocksdb.writecf"
    /\ ~cfg.rocksdb.writecf.use_bloom_filter
    /\ cfg.rocksdb.writecf.whole_key_filtering
    /\ cfg.rocksdb.writecf.bloom_filter_bits_per_key = 7
    /\ cfg.rocksdb.writecf.block_based_bloom_filter
    /\ TableOptions(opts.o).bloom_filter = NotSet

(* the settings a variant adds to the common ones *)
Extras(cf_opts) ==
    [prefix_extractor |-> cf_opts.prefix_extractor,
     memtable_insert_hint_prefix_extractor |-> cf_opts.memtable_insert_hint_prefix_extractor,
     memtable_prefix_bloom_size_ratio |-> cf_opts.memtable_prefix_bloom_size_ratio,
     table_properties_collector_factories |-> cf_opts.table_properties_collector_factories]
NoExtras ==
    [prefix_extractor |-> NotSet,
     memtable_insert_hint_prefix_extractor |-> NotSet,
     memtable_prefix_bloom_size_ratio |-> NotSet,
     table_properties_collector_factories |-> << >>]
(* the option object without what the variant added *)
Common(cf_opts) ==
    [cf_opts EXCEPT !.prefix_extractor = NotSet,
                    !.memtable_insert_hint_prefix_extractor = NotSet,
                    !.memtable_prefix_bloom_size_ratio = NotSet,
                    !.table_properties_collector_factories = << >>]

(* C14: on top of the common settings, the write CF gets a fixed-suffix    *)
(* prefix extractor of length 8, the prefix-bloom ratio 0.1 and the MVCC   *)
(* and size collectors; the lock CF a no-op prefix extractor, the ratio    *)
(* 0.1 and no collector; the main engine's default CF only the size        *)
(* collector; the consensus-log default CF a fixed-prefix extractor of the *)
(* raft region-prefix length as memtable insert-hint extractor, not as     *)
(* prefix extractor, and no collector                                      *)
C14_VariantExtras ==
    BuiltCf =>
        /\ Common(opts.o) = build_cf_opt(CfConfigOf(opts.cf))
        /\ opts.cf = "rocksdb.writecf" =>
               Extras(opts.o) =
                   [NoExtras EXCEPT
                       !.prefix_extractor =
                           <<[name |-> "FixedSuffixSliceTransform",
                              transform |-> [transform |-> "FixedSuffix", len |-> 8]]>>,
                       !.memtable_prefix_bloom_size_ratio = << <<1, 10>> >>,
                       !.table_properties_collector_factories =
                           <<"tikv.mvcc-properties-collector",
                             "tikv.size-properties-collector">>]
        /\ opts.cf = "rocksdb.lockcf" =>
               Extras(opts.o) =
                   [NoExtras EXCEPT
                       !.prefix_extractor =
                           <<[name |-> "NoopSliceTransform",
                              transform |-> [transform |-> "Noop", len |-> 0]]>>,
                       !.memtable_prefix_bloom_size_ratio = << <<1, 10>> >>]
        /\ opts.cf = "rocksdb.defaultcf" =>
               Extras(opts.o) =
                   [NoExtras EXCEPT
                       !.table_properties_collector_factories =
                           <<"tikv.size-properties-collector">>]
        /\ opts.cf = "raftdb.defaultcf" =>
               Extras(opts.o) =
                   [NoExtras EXCEPT
                       !.memtable_insert_hint_prefix_extractor =
                           <<[name |-> "RaftPrefixSliceTransform",
                              transform |-> [transform |-> "FixedPrefix",
                                             len |-> region_raft_prefix_len]]>>]

C14_Witness ==
    /\ BuiltCf
    /\ opts.cf = "raftdb.defaultcf"
    /\ opts.o.memtable_insert_hint_prefix_extractor # NotSet
    /\ opts.o.prefix_extractor = NotSet
    /\ ~cfg.raftdb.defaultcf.use_bloom_filter

(* the block cache size an option object was built with *)
CacheOf(cf_opts) == TableOptions(cf_opts).lru_cache[1]

(* C15: DbConfig::build_cf_opts returns four pairs named default, lock,    *)
(* write, raft in that order, each built from the config of the same name; *)
(* RaftDbConfig::build_cf_opts returns one pair, named default, built from *)
(* the consensus-log engine's default CF config                            *)
C15_CfOptsNamedAndOrdered ==
    /\ opts.call = "DbConfig::build_cf_opts" =>
           /\ Len(opts.o) = 4
           /\ <<opts.o[1][1], opts.o[2][1], opts.o[3][1], opts.o[4][1]>>
                  = <<"default", "lock", "write", "raft">>
           /\ opts.o[1][2] = DefaultCfConfig_build_opt(cfg.rocksdb.defaultcf)
           /\ opts.o[2][2] = LockCfConfig_build_opt(cfg.rocksdb.lockcf)
           /\ opts.o[3][2] = WriteCfConfig_build_opt(cfg.rocksdb.writecf)
           /\ opts.o[4][2] = RaftCfConfig_build_opt(cfg.rocksdb.raftcf)
           /\ CacheOf(opts.o[1][2]) = cfg.rocksdb.defaultcf.block_cache_size
           /\ CacheOf(opts.o[2][2]) = cfg.rocksdb.lockcf.block_cache_size
           /\ CacheOf(opts.o[3][2]) = cfg.rocksdb.writecf.block_cache_size
           /\ CacheOf(opts.o[4][2]) = cfg.rocksdb.raftcf.block_cache_size
    /\ opts.call = "RaftDbConfig::build_cf_opts" =>
           /\ Len(opts.o) = 1
           /\ opts.o[1][1] = "default"
           /\ opts.o[1][2] = RaftDefaultCfConfig_build_opt(cfg.raftdb.defaultcf)
           /\ CacheOf(opts.o[1][2]) = cfg.raftdb.defaultcf.block_cache_size

C15_Witness ==
    /\ opts.call = "DbConfig::build_cf_opts"
    /\ Overrides(doc, [engine |-> "rocksdb", field |-> "lockcf"])
    /\ CacheOf(opts.o[2][2]) = 12 * MB
    /\ CacheOf(opts.o[3][2]) # 12 * MB

-----------------------------------------------------------------------------
(* Properties of the engine builders.  A builder that returned left its    *)
(* option object in opts; one that aborted left none.                      *)

BuiltDb == opts.call = "DbConfig::build_opt" /\ opts.o # NoOptions
BuiltRaftDb == opts.call = "RaftDbConfig::build_opt" /\ opts.o # NoOptions

(* C16: DbConfig::build_opt attaches a rate limiter if and only if         *)
(* rate_bytes_per_sec is positive, and then with the configured rate; with *)
(* rate_bytes_per_sec = 0, the default, none is attached                   *)
C16_RateLimiterIffPositive ==
    BuiltDb =>
        /\ (opts.o.ratelimiter # NotSet) <=> (cfg.rocksdb.rate_bytes_per_sec > 0)
        /\ cfg.rocksdb.rate_bytes_per_sec > 0 =>
               opts.o.ratelimiter = <<cfg.rocksdb.rate_bytes_per_sec>>
        /\ doc = NoDoc => opts.o.ratelimiter = NotSet

C16_Witness ==
    /\ BuiltDb
    /\ cfg.rocksdb.rate_bytes_per_sec = 1 * MB
    /\ opts.o.ratelimiter = <<1 * MB>>

(* the knobs both engine builders set without a guard *)
UnguardedKnobs(self) ==
    [wal_recovery_mode |-> self.wal_recovery_mode,
     wal_ttl_seconds |-> self.wal_ttl_seconds,
     wal_size_limit_mb |-> self.wal_size_limit \div 1024,
     max_total_wal_size |-> self.max_total_wal_size,
     max_manifest_file_size |-> self.max_manifest_file_size,
     create_if_missing |-> self.create_if_missing,
     max_open_files |-> self.max_open_files,
     compaction_readahead_size |-> self.compaction_readahead_size,
     max_log_file_size |-> self.info_log_max_size,
     log_file_time_to_roll |-> self.info_log_roll_time,
     max_subcompactions |-> self.max_sub_compactions,
     writable_file_max_buffer_size |-> self.writable_file_max_buffer_size,
     use_direct_io_for_flush_and_compaction |-> self.use_direct_io_for_flush_and_compaction,
     pipelined_write |-> self.enable_pipelined_write]

GuardsRespected(self, o) ==
    /\ o.wal_dir = IF self.wal_dir # << >> THEN <<self.wal_dir>> ELSE NotSet
    /\ o.info_log = IF self.info_log_dir # << >> THEN <<self.info_log_dir>> ELSE NotSet
    /\ o.statistics = IF self.enable_statistics THEN <<TRUE>> ELSE NotSet
    /\ o.stats_dump_period_sec =
           IF self.enable_statistics THEN <<self.stats_dump_period>> ELSE NotSet
    /\ \A knob \in DOMAIN UnguardedKnobs(self) : o[knob] = <<UnguardedKnobs(self)[knob]>>

LogDirFails(self) ==
    self.info_log_dir # << >> /\ self.info_log_dir \in host.unusable

(* C18: a validate call, whatever it rejects, returns (its error value in  *)
(* res) and never aborts the process; the process aborts only in an engine *)
(* builder whose non-empty info_log_dir cannot be created, and that call   *)
(* leaves no option object and no error value; such a call always aborts   *)
C18_FailureSurfacesDisjoint ==
    [][ /\ validations' # validations =>
               /\ ~aborted'
               /\ opts'.call = opts.call
               /\ res'.err = TiKvConfig_validate(cfg, host).err
        /\ (aborted' /\ ~aborted) =>
               /\ validations' = validations
               /\ res' = res
               /\ opts'.o = NoOptions
               /\ \/ opts'.call = "DbConfig::build_opt" /\ LogDirFails(cfg.rocksdb)
                  \/ opts'.call = "RaftDbConfig::build_opt" /\ LogDirFails(cfg.raftdb)
        /\ (opts'.call = "DbConfig::build_opt" /\ LogDirFails(cfg.rocksdb)) => aborted'
        /\ (opts'.call = "RaftDbConfig::build_opt" /\ LogDirFails(cfg.raftdb)) => aborted'
      ]_vars

(* a rejected validation, and later an abort in a builder *)
C18_Witness ==
    /\ aborted
    /\ opts.o = NoOptions
    /\ validations > 0
    /\ res.err # Ok

(* C19: RaftDbConfig::build_opt sets neither the background-job count nor  *)
(* a rate limiter, sets the concurrent-memtable-write toggle from its      *)
(* config and registers the listener "raft"; DbConfig::build_opt sets the  *)
(* background-job count, registers the listener "kv" and never sets the    *)
(* concurrent-memtable-write toggle                                        *)
C19_EngineSpecificSettings ==
    /\ BuiltRaftDb =>
           /\ opts.o.max_background_jobs = NotSet
           /\ opts.o.ratelimiter = NotSet
           /\ opts.o.allow_concurrent_memtable_write =
                  <<cfg.raftdb.allow_concurrent_memtable_write>>
           /\ opts.o.event_listeners = <<"raft">>
    /\ BuiltDb =>
           /\ opts.o.max_background_jobs = <<cfg.rocksdb.max_background_jobs>>
           /\ opts.o.allow_concurrent_memtable_write = NotSet
           /\ opts.o.event_listeners = <<"kv">>

C19_Witness ==
    /\ BuiltRaftDb
    /\ Has(doc, "raftdb")
    /\ Has(doc["raftdb"], "rate_bytes_per_sec")
    /\ Has(doc["raftdb"], "max_background_jobs")
    /\ opts.o.allow_concurrent_memtable_write = <<TRUE>>
    /\ opts.o.ratelimiter = NotSet

-----------------------------------------------------------------------------
(* Properties of serialization *)

(* the tree was read back from its own text *)
Reloaded == load # NoTree

(* C20: the default tree, serialized and parsed back, is the tree it was,  *)
(* field for field, for every value the memory-derived default cache sizes *)
(* can take                                                                *)
C20_DefaultRoundTrips ==
    (Reloaded /\ doc = NoDoc) =>
        /\ load = cfg
        /\ \A f \in DOMAIN cfg : load[f] = cfg[f]
        /\ load.rocksdb.defaultcf.block_cache_size
               = memory_mb_for_cf(host.total_kb, FALSE, CF_DEFAULT) * MB
        /\ load.rocksdb.writecf.block_cache_size
               = memory_mb_for_cf(host.total_kb, FALSE, CF_WRITE) * MB
        /\ load.rocksdb.lockcf.block_cache_size
               = memory_mb_for_cf(host.total_kb, FALSE, CF_LOCK) * MB
        /\ load.raftdb.defaultcf.block_cache_size
               = memory_mb_for_cf(host.total_kb, TRUE, CF_DEFAULT) * MB

(* a default tree whose lock cache is not a whole number of GB and whose   *)
(* default cache is: the two are written in different units                *)
C20_Witness ==
    /\ Reloaded
    /\ doc = NoDoc
    /\ host.total_kb = 16 * GB
    /\ ReadableSize_serialize(cfg.rocksdb.lockcf.block_cache_size).unit = "MB"
    /\ ReadableSize_serialize(cfg.rocksdb.defaultcf.block_cache_size).unit = "GB"
    /\ load.rocksdb.lockcf.block_cache_size = 327 * MB

(* every tree of the model, not only the default one, survives the trip *)
AnyRoundTrips == Reloaded => load = cfg

-----------------------------------------------------------------------------
(* Properties of the merge of a document onto the defaults *)

(* the table under a key, empty when the key is absent *)
Sub(table, key) == IF Has(table, key) THEN table[key] ELSE EmptyTable

(* each leaf of struct t is the table's value where the table has its key  *)
(* and the default d's otherwise                                           *)
LeavesMerged(t, table, d, kinds) ==
    /\ DOMAIN t = DOMAIN d
    /\ \A f \in DOMAIN t :
           KindOf(kinds, f) # "table" =>
               t[f] = IF Has(table, KeyOf(f))
                      THEN ParseLeaf(KindOf(kinds, f), table[KeyOf(f)])
                      ELSE d[f]

EngineMerged(t, table, d) ==
    /\ LeavesMerged(t, table, d, "db")
    /\ \A c \in {f \in DOMAIN t : DbKind(f) = "table"} :
           LeavesMerged(t[c], Sub(table, c), d[c], "cf")

(* tree t is default tree d overridden by the document *)
MergedFrom(t, document, d) ==
    /\ LeavesMerged(t, document, d, "top")
    /\ LeavesMerged(t.server, Sub(document, "server"), d.server, "plain")
    /\ LeavesMerged(t.storage, Sub(document, "storage"), d.storage, "plain")
    /\ LeavesMerged(t.pd, Sub(document, "pd"), d.pd, "plain")
    /\ LeavesMerged(t.raft_store, Sub(document, "raftstore"), d.raft_store, "plain")
    /\ LeavesMerged(t.metric, Sub(document, "metric"), d.metric, "metric")
    /\ EngineMerged(t.rocksdb, Sub(document, "rocksdb"), d.rocksdb)
    /\ EngineMerged(t.raftdb, Sub(document, "raftdb"), d.raftdb)

DefaultTree == TiKvConfig_default(host.total_kb).v

(* C21: a tree read from a document has the document's value in every      *)
(* field the document sets and the compiled-in default in every other      *)
(* field, keys that name no field change nothing; a document that mirrors  *)
(* the defaults yields the default tree and the document that sets every   *)
(* field yields the tree of its values                                     *)
C21_OverrideMerge ==
    /\ (constructed /\ doc # NoDoc) => MergedFrom(cfg, doc, DefaultTree)
    /\ (constructed /\ doc = NoDoc) => cfg = DefaultTree
    /\ (constructed /\ doc = CustomDoc) => cfg = CustomTree
    /\ Reloaded => MergedFrom(load, TiKvConfig_serialize(cfg), DefaultTree)
    /\ (Reloaded /\ doc = NoDoc) => load = DefaultTree

C21_Witness ==
    /\ constructed
    /\ doc = CustomDoc
    /\ cfg.rocksdb.lockcf.compaction_pri = "MinOverlappingRatio"
    /\ cfg.raftdb.info_log_roll_time = 1
    /\ cfg.rocksdb.stats_dump_period = 720
    /\ cfg.metric.job = "tikv_1"

-----------------------------------------------------------------------------
(* Properties of the builders as functions of the tree *)

(* what build_opt of the named column-family config of tree t returns *)
CfBuildOf(which, t) ==
    CASE which = "rocksdb.defaultcf" -> DefaultCfConfig_build_opt(t.rocksdb.defaultcf)
      [] which = "rocksdb.writecf" -> WriteCfConfig_build_opt(t.rocksdb.writecf)
      [] which = "rocksdb.lockcf" -> LockCfConfig_build_opt(t.rocksdb.lockcf)
      [] which = "rocksdb.raftcf" -> RaftCfConfig_build_opt(t.rocksdb.raftcf)
      [] which = "raftdb.defaultcf" -> RaftDefaultCfConfig_build_opt(t.raftdb.defaultcf)

-----------------------------------------------------------------------------
(* Properties of the advisor's domain *)

(* the pairs memory_mb_for_cf has a row for *)
SupportedPairs ==
    { <<TRUE, CF_DEFAULT>>, <<FALSE, CF_DEFAULT>>, <<FALSE, CF_LOCK>>, <<FALSE, CF_WRITE>> }
AllPairs == BOOLEAN \X {CF_DEFAULT, CF_LOCK, CF_WRITE, CF_RAFT, "other"}

(* C23: memory_mb_for_cf has a result for the pairs (consensus-log,        *)
(* default), (main, default), (main, lock), (main, write) and reaches      *)
(* unreachable!() for every other pair; the default constructors ask it    *)
(* about those four pairs only, and the main engine's raft CF gets 128MB   *)
C23_AdvisorDomain ==
    /\ \A p \in AllPairs :
           (memory_mb_for_cf(host.total_kb, p[1], p[2]) = -1) <=> (p \notin SupportedPairs)
    /\ \A p \in SupportedPairs : memory_mb_for_cf(host.total_kb, p[1], p[2]) >= 0
    /\ advised \subseteq SupportedPairs
    /\ constructed =>
           /\ advised = SupportedPairs
           /\ doc = NoDoc => cfg.rocksdb.raftcf.block_cache_size = 128 * MB
           /\ RaftCfConfig_default.v.block_cache_size = 128 * MB
           /\ RaftCfConfig_default.a = {}

C23_Witness ==
    /\ constructed
    /\ doc = NoDoc
    /\ <<FALSE, CF_RAFT>> \notin advised
    /\ memory_mb_for_cf(host.total_kb, FALSE, CF_RAFT) = -1
    /\ memory_mb_for_cf(host.total_kb, TRUE, CF_WRITE) = -1
    /\ cfg.rocksdb.raftcf.block_cache_size = 128 * MB

(* host memory sizes to compare with: those of the model and every whole   *)
(* number of GiB up to 128                                                 *)
MemSweep == HostMemKb \cup {g * GB : g \in 1..128}

(* C27: for each of the four pairs memory_mb_for_cf does not decrease when *)
(* the host memory grows; for every host memory the write CF gets at most  *)
(* what the main default CF gets, and the lock CF at most what the         *)
(* consensus-log default CF gets                                           *)
C27_AdvisorMonotone ==
    /\ \A p \in SupportedPairs : \A m \in MemSweep :
           /\ host.total_kb <= m =>
                  memory_mb_for_cf(host.total_kb, p[1], p[2]) <= memory_mb_for_cf(m, p[1], p[2])
           /\ m <= host.total_kb =>
                  memory_mb_for_cf(m, p[1], p[2]) <= memory_mb_for_cf(host.total_kb, p[1], p[2])
    /\ \A m \in MemSweep \cup {host.total_kb} :
           /\ memory_mb_for_cf(m, FALSE, CF_WRITE) <= memory_mb_for_cf(m, FALSE, CF_DEFAULT)
           /\ memory_mb_for_cf(m, FALSE, CF_LOCK) <= memory_mb_for_cf(m, TRUE, CF_DEFAULT)
    /\ constructed =>
           /\ cfg.rocksdb.writecf.block_cache_size <= cfg.rocksdb.defaultcf.block_cache_size
                  \/ Overrides(doc, [engine |-> "rocksdb", field |-> "writecf"])
                  \/ Overrides(doc, [engine |-> "rocksdb", field |-> "defaultcf"])

(* a host large enough for the lock CF's ceiling to separate it from the   *)
(* consensus-log default CF                                                *)
C27_Witness ==
    /\ constructed
    /\ doc = NoDoc
    /\ host.total_kb = 128 * GB
    /\ cfg.rocksdb.lockcf.block_cache_size = 1 * GB
    /\ cfg.raftdb.defaultcf.block_cache_size = 2 * GB
    /\ cfg.rocksdb.writecf.block_cache_size < cfg.rocksdb.defaultcf.block_cache_size

-----------------------------------------------------------------------------
(* Properties of the level-0 thresholds *)

Level0Fields ==
    {"level0_file_num_compaction_trigger", "level0_slowdown_writes_trigger",
     "level0_stop_writes_trigger"}
NonDecreasing(c) ==
    /\ c.level0_file_num_compaction_trigger <= c.level0_slowdown_writes_trigger
    /\ c.level0_slowdown_writes_trigger <= c.level0_stop_writes_trigger
(* the tree with every column family's thresholds put back to the defaults *)
Level0Reset(t) ==
    LET d == TiKvConfig_default(host.total_kb).v
        Reset(c, dc) ==
            [c EXCEPT !.level0_file_num_compaction_trigger =
                          dc.level0_file_num_compaction_trigger,
                      !.level0_slowdown_writes_trigger = dc.level0_slowdown_writes_trigger,
                      !.level0_stop_writes_trigger = dc.level0_stop_writes_trigger]
    IN  [t EXCEPT !.rocksdb.defaultcf = Reset(@, d.rocksdb.defaultcf),
                  !.rocksdb.writecf = Reset(@, d.rocksdb.writecf),
                  !.rocksdb.lockcf = Reset(@, d.rocksdb.lockcf),
                  !.rocksdb.raftcf = Reset(@, d.rocksdb.raftcf),
                  !.raftdb.defaultcf = Reset(@, d.raftdb.defaultcf)]

(* C24: in each of the five default column-family configs the level-0      *)
(* compaction trigger, slowdown threshold and stop threshold do not        *)
(* decrease; a document's thresholds are taken as they are, in any order;  *)
(* validate keeps them and its result does not depend on them; build_opt   *)
(* passes the three values to the options unchanged                        *)
C24_Level0NotEnforced ==
    /\ NonDecreasing(DefaultCfConfig_default(host.total_kb).v)
    /\ NonDecreasing(WriteCfConfig_default(host.total_kb).v)
    /\ NonDecreasing(LockCfConfig_default(host.total_kb).v)
    /\ NonDecreasing(RaftCfConfig_default.v)
    /\ NonDecreasing(RaftDefaultCfConfig_default(host.total_kb).v)
    /\ (constructed /\ doc = NoDoc) =>
           \A slot \in CfSlots : NonDecreasing(cfg[slot.engine][slot.field])
    /\ constructed =>
           \A slot \in CfSlots : \A f \in Level0Fields :
               (/\ doc # NoDoc
                /\ Has(doc, slot.engine)
                /\ Has(doc[slot.engine], slot.field)
                /\ Has(doc[slot.engine][slot.field], f))
               => cfg[slot.engine][slot.field][f] = doc[slot.engine][slot.field][f]
    /\ Validated =>
           /\ \A slot \in CfSlots :
                  cfg[slot.engine][slot.field] = pre[slot.engine][slot.field]
           /\ res.err = TiKvConfig_validate(Level0Reset(pre), host).err
    /\ BuiltCf =>
           LET c == CfConfigOf(opts.cf)
           IN  /\ opts.o # NoOptions
               /\ opts.o.level_zero_file_num_compaction_trigger
                      = Set(c.level0_file_num_compaction_trigger)
               /\ opts.o.level_zero_slowdown_writes_trigger
                      = Set(c.level0_slowdown_writes_trigger)
               /\ opts.o.level_zero_stop_writes_trigger
                      = Set(c.level0_stop_writes_trigger)

(* decreasing thresholds from a document passed validation and reached the *)
(* write CF's options                                                      *)
C24_Witness ==
    /\ Succeeded
    /\ BuiltCf
    /\ opts.cf = "rocksdb.writecf"
    /\ ~NonDecreasing(cfg.rocksdb.writecf)
    /\ doc # NoDoc
    /\ Has(doc, "rocksdb")
    /\ Has(doc.rocksdb, "writecf")
    /\ Has(doc.rocksdb.writecf, "level0_slowdown_writes_trigger")
    /\ opts.o.level_zero_file_num_compaction_trigger = <<9>>
    /\ opts.o.level_zero_slowdown_writes_trigger = <<5>>
    /\ opts.o.level_zero_stop_writes_trigger = <<2>>

-----------------------------------------------------------------------------
(* Properties of repeated validation *)

(* C25: when validate has succeeded, a second call on the tree it left     *)
(* succeeds as well and changes nothing in the tree: backup_dir,           *)
(* raftdb_path and every other field stay as the first call left them      *)
C25_ValidateIdempotentOnSuccess ==
    [][ (Succeeded /\ validations' = validations + 1) =>
            /\ res'.err = Ok
            /\ cfg' = cfg
            /\ cfg'.rocksdb.backup_dir = cfg.rocksdb.backup_dir
            /\ cfg'.raft_store.raftdb_path = cfg.raft_store.raftdb_path ]_vars

(* a second successful call, after a first one that derived backup_dir and *)
(* raftdb_path from a relative data directory                              *)
C25_Witness ==
    /\ validations = 2
    /\ res.err = Ok
    /\ pre = cfg
    /\ doc # NoDoc
    /\ Has(doc, "storage")
    /\ doc.storage.data_dir = <<"data">>
    /\ ~Has(doc, "rocksdb")
    /\ ~Has(doc, "raftstore")
    /\ cfg.rocksdb.backup_dir # EmptyPath
    /\ cfg.raft_store.raftdb_path = <<"/", "data", "raft">>

-----------------------------------------------------------------------------
(* Properties of the compiled-in tree under validation *)

(* C26: validate never succeeds on the tree of TiKvConfig::default(), for  *)
(* any host memory and any state of the file system: when no earlier step  *)
(* fails, the endpoint check does, because the list is empty               *)
C26_DefaultNeverValid ==
    /\ TiKvConfig_default(host.total_kb).v.pd.endpoints = << >>
    /\ (constructed /\ doc = NoDoc) => cfg.pd.endpoints = << >>
    /\ (constructed /\ doc = NoDoc /\ Validated) =>
           /\ res.err # Ok
           /\ res.steps[Len(res.steps)] = "pd" => res.err = Err("pd.endpoints", << >>)
           /\ TiKvConfig_validate(cfg, host).err # Ok

(* the endpoint check rejected the default tree twice on the largest host, *)
(* where both engines' directories hold data                               *)
C26_Witness ==
    /\ constructed
    /\ doc = NoDoc
    /\ validations = 2
    /\ res.err = Err("pd.endpoints", << >>)
    /\ host.total_kb = 128 * GB
    /\ host.dbs = {<<"/", "db">>, <<"/", "raft">>}
    /\ cfg.raft_store.raftdb_path = <<"/", "raft">>
=============================================================================
